---- MODULE Spec2Model ----
(***************************************************************************)
(* Caret, selection and navigation core of vibe-text-editor.               *)
(*                                                                         *)
(* The model follows src/src/main.ts, the revision whose Editor,           *)
(* EditorSelection, EditorRange, EditorTreeWalker and EditorRangeRectWalker *)
(* live in lines 868-1859 (the revision the tests in src/tests import).    *)
(* The DOM is a finite forest of fixture documents, the host layout engine *)
(* is a table of boxes, and every public operation of EditorSelection is   *)
(* one action.                                                             *)
(***************************************************************************)
EXTENDS Integers, Sequences, FiniteSets, TLC

VARIABLES editorRoot, anchor, focus, goalX, last

vars == <<editorRoot, anchor, focus, goalX, last>>

(***************************************************************************)
(* Nullable values: a JavaScript `T | null` is the empty set or {value}.   *)
(***************************************************************************)
Null == {}

Some(v) == {v}

Val(s) == CHOOSE v \in s : TRUE

(* const name = v; F(name): a value computed once and used under a name.    *)
Let(v, F(_)) == F(v)

(* How far outside [0, max offset] an offset handed to the API may lie,    *)
(* and how far outside it the model follows a stored offset.                *)
OffRange == 1

(***************************************************************************)
(* DOM fixtures: a forest.  Every fixture document is a tree whose nodes   *)
(* are numbered in pre-order, 0 stands for null, and an editor is attached *)
(* to one of the roots.  Node n has the name nodeName[n] and the parent    *)
(* parentNodeTab[n]; a text node holds textLength[n] characters.           *)
(*                                                                         *)
(*  1: <div><span>ab</span><img class="atomic-component"/><span>cd</span>  *)
(*     </div>, one line: nodes 1 div, 2 span, 3 "ab", 4 img, 5 span, 6 "cd" *)
(*  7: <div><br/>ab<br/></div>, a BR is the first and the last addressable *)
(*     leaf: nodes 7 div, 8 br, 9 "ab", 10 br                               *)
(* 11: <div>ab<br/>a<br/>ab</div>, three lines of different lengths: nodes *)
(*     11 div, 12 "ab", 13 br, 14 "a", 15 br, 16 "ab"                       *)
(* 17: <div><p>ab</p><p>c</p></div>, two blocks, one line each: nodes      *)
(*     17 div, 18 p, 19 "ab", 20 p, 21 "c"                                  *)
(* 22: <div><strong>ab</strong><em>cd</em></div>, two inline wrappers side *)
(*     by side on one line: nodes 22 div, 23 strong, 24 "ab", 25 em,       *)
(*     26 "cd"                                                              *)
(* 27: <div>a<br/><br/>b</div>, an empty line between two lines: nodes     *)
(*     27 div, 28 "a", 29 br, 30 br, 31 "b"                                 *)
(* 32: <div><p>a<b>c</b>d</p><hr/><p>e</p><img/></div> with an empty text  *)
(*     node between </b> and "d": plain text before an inline wrapper, an  *)
(*     empty text leaf, a block atomic between two blocks, an inline       *)
(*     atomic after a block: nodes 32 div, 33 p, 34 "a", 35 b, 36 "c",     *)
(*     37 "", 38 "d", 39 hr, 40 p, 41 "e", 42 img                           *)
(* 43: <div>a<table><td>x</td></table>b</div>, an atomic with content:     *)
(*     nodes 43 div, 44 "a", 45 table, 46 td, 47 "x", 48 "b"               *)
(* 49: <body><div></div>z</body>, an element without children followed by  *)
(*     a sibling: nodes 49 body, 50 div, 51 "z"                             *)
(* 52: <div>ab<span style="font-size: 0">c</span>d</div>, one line with a  *)
(*     text leaf whose rect has no height and no width: nodes 52 div,      *)
(*     53 "ab", 54 span, 55 "c", 56 "d"                                     *)
(***************************************************************************)
nodeName ==
  << "DIV", "SPAN", "#text", "IMG", "SPAN", "#text",
     "DIV", "BR", "#text", "BR",
     "DIV", "#text", "BR", "#text", "BR", "#text",
     "DIV", "P", "#text", "P", "#text",
     "DIV", "STRONG", "#text", "EM", "#text",
     "DIV", "#text", "BR", "BR", "#text",
     "DIV", "P", "#text", "B", "#text", "#text", "#text", "HR", "P", "#text",
     "IMG",
     "DIV", "#text", "TABLE", "TD", "#text", "#text",
     "BODY", "DIV", "#text",
     "DIV", "#text", "SPAN", "#text", "#text" >>

parentNodeTab ==
  << 0, 1, 2, 1, 1, 5,
     0, 7, 7, 7,
     0, 11, 11, 11, 11, 11,
     0, 17, 18, 17, 20,
     0, 22, 23, 22, 25,
     0, 27, 27, 27, 27,
     0, 32, 33, 33, 35, 33, 33, 32, 32, 40, 32,
     0, 43, 43, 45, 46, 43,
     0, 49, 49,
     0, 52, 52, 54, 52 >>

textLength ==
  << 0, 0, 2, 0, 0, 2,
     0, 0, 2, 0,
     0, 2, 0, 1, 0, 2,
     0, 0, 2, 0, 1,
     0, 0, 2, 0, 2,
     0, 1, 0, 0, 1,
     0, 0, 1, 0, 1, 0, 1, 0, 0, 1, 0,
     0, 1, 0, 0, 1, 1,
     0, 0, 1,
     0, 2, 0, 1, 1 >>

(* The elements whose classList contains 'atomic-component'.                *)
atomicComponentClass == {4}

(* The boxes the layout engine reports.  An element has the box (boxLeft,  *)
(* boxTop, boxWidth, boxHeight); a text leaf is laid out on one line       *)
(* starting at (boxLeft, boxTop) with characters boxWidth wide.            *)
boxLeft ==
  << 0, 0, 0, 8, 16, 16,
     0, 0, 0, 8,
     0, 0, 8, 0, 4, 0,
     0, 0, 0, 0, 0,
     0, 0, 0, 8, 8,
     0, 0, 4, 0, 0,
     0, 0, 0, 4, 4, 8, 8, 0, 0, 0, 0,
     0, 0, 4, 4, 4, 12,
     0, 0, 0,
     0, 0, 8, 8, 8 >>

boxTop ==
  << 0, 0, 0, 0, 0, 0,
     0, 0, 20, 20,
     0, 0, 0, 20, 20, 40,
     0, 0, 0, 20, 20,
     0, 0, 0, 0, 0,
     0, 0, 0, 20, 40,
     0, 0, 0, 0, 0, 0, 0, 20, 40, 40, 60,
     0, 0, 0, 0, 0, 0,
     0, 0, 20,
     0, 0, 16, 16, 0 >>

boxWidth ==
  << 40, 8, 4, 8, 8, 4,
     40, 0, 4, 0,
     40, 4, 0, 4, 0, 4,
     40, 40, 4, 40, 4,
     40, 8, 4, 8, 4,
     40, 4, 0, 0, 4,
     40, 40, 4, 4, 4, 4, 4, 40, 40, 4, 8,
     40, 4, 8, 8, 4, 4,
     40, 40, 4,
     40, 4, 0, 0, 4 >>

boxHeight ==
  << 20, 20, 20, 20, 20, 20,
     40, 20, 20, 20,
     60, 20, 20, 20, 20, 20,
     40, 20, 20, 20, 20,
     20, 20, 20, 20, 20,
     60, 20, 20, 20, 20,
     80, 20, 20, 20, 20, 20, 20, 20, 20, 20, 20,
     20, 20, 20, 20, 20, 20,
     40, 20, 20,
     20, 20, 0, 0, 20 >>

Nodes == DOMAIN parentNodeTab

(* The trees that are only walked: no editor is attached to them.          *)
WalkedOnly == {43, 49}

Roots == {n \in Nodes : parentNodeTab[n] = 0} \ WalkedOnly

(***************************************************************************)
(* DOM navigation.                                                         *)
(***************************************************************************)
Min(S) == CHOOSE x \in S : \A y \in S : x <= y

Max(S) == CHOOSE x \in S : \A y \in S : x >= y

ChildSet(n) == {c \in Nodes : parentNodeTab[c] = n}

parentNode(n) == IF n = 0 THEN 0 ELSE parentNodeTab[n]

firstChildTab == [n \in Nodes |-> Let(ChildSet(n), LAMBDA S : IF S = {} THEN 0 ELSE Min(S))]

firstChild(n) == IF n = 0 THEN 0 ELSE firstChildTab[n]

lastChildTab == [n \in Nodes |-> Let(ChildSet(n), LAMBDA S : IF S = {} THEN 0 ELSE Max(S))]

lastChild(n) == IF n = 0 THEN 0 ELSE lastChildTab[n]

(* The root of a tree has no parent and so no sibling.                      *)
nextSiblingTab ==
  [n \in Nodes |->
     Let({c \in ChildSet(parentNodeTab[n]) : c > n /\ parentNodeTab[n] # 0},
         LAMBDA S : IF S = {} THEN 0 ELSE Min(S))]

nextSibling(n) == IF n = 0 THEN 0 ELSE nextSiblingTab[n]

previousSiblingTab ==
  [n \in Nodes |->
     Let({c \in ChildSet(parentNodeTab[n]) : c < n /\ parentNodeTab[n] # 0},
         LAMBDA S : IF S = {} THEN 0 ELSE Max(S))]

previousSibling(n) == IF n = 0 THEN 0 ELSE previousSiblingTab[n]

(* parent.childNodes.length, Array.indexOf (0-based) and childNodes[k]      *)
(* (0 for undefined).                                                       *)
childCount(n) == Cardinality(ChildSet(n))

indexOf(n) == Cardinality({c \in ChildSet(parentNodeTab[n]) : c < n})

childAt(p, k) ==
  Let({c \in ChildSet(p) : indexOf(c) = k}, LAMBDA S : IF S = {} THEN 0 ELSE Val(S))

isTextNode(n) == n # 0 /\ nodeName[n] = "#text"

isElementNode(n) == n # 0 /\ nodeName[n] # "#text"

isAtomicComponent(n) ==
  /\ isElementNode(n)
  /\ \/ nodeName[n] \in {"BR", "HR", "IMG", "TABLE"}
     \/ n \in atomicComponentClass

acceptNode(n) == isTextNode(n) \/ isAtomicComponent(n)

getAfterOffset(n) == IF isElementNode(n) THEN 1 ELSE textLength[n]

isBR(n) == n # 0 /\ nodeName[n] = "BR"

(* root.contains(n)                                                         *)
RECURSIVE contains(_, _)
contains(root, n) ==
  IF n = 0 THEN FALSE ELSE IF n = root THEN TRUE ELSE contains(root, parentNode(n))

(***************************************************************************)
(* EditorTreeWalker, for the walker whose this.root is `root`.              *)
(***************************************************************************)
RECURSIVE ancestorNextSibling(_, _)
ancestorNextSibling(root, temp) ==
  IF temp = 0 THEN 0
  ELSE IF temp = root THEN 0
  ELSE Let(nextSibling(temp), LAMBDA sibling :
         IF sibling # 0 THEN sibling ELSE ancestorNextSibling(root, parentNode(temp)))

(* The descent that enters an atomic as well.                               *)
RECURSIVE lastDescendantEntered(_)
lastDescendantEntered(current) ==
  IF lastChild(current) # 0 THEN lastDescendantEntered(lastChild(current)) ELSE current

RECURSIVE deepestLastChild(_)
deepestLastChild(current) ==
  Let(lastChild(current), LAMBDA child :
    IF ~isAtomicComponent(current) /\ child # 0 THEN deepestLastChild(child) ELSE current)

(* The forward branch of getNextNode, given node.firstChild and             *)
(* node.nextSibling.                                                        *)
nextForward(root, node, child, sibling) ==
  IF ~isAtomicComponent(node) /\ child # 0 THEN child
  ELSE IF sibling # 0 THEN sibling
  ELSE ancestorNextSibling(root, node)

(* The backward branch of getNextNode, given node.previousSibling and       *)
(* node.parentNode.                                                         *)
nextBackward(root, node, sibling, parent) ==
  IF node = root THEN 0
  ELSE IF sibling # 0 THEN deepestLastChild(sibling)
  ELSE IF parent = root THEN 0
  ELSE parent

getNextNode(root, node, direction) ==
  IF node = 0 THEN 0
  ELSE IF direction = "forward"
  THEN nextForward(root, node, firstChild(node), nextSibling(node))
  ELSE nextBackward(root, node, previousSibling(node), parentNode(node))

(* The nodes the generator yields, in order, when started at currentNode.  *)
RECURSIVE traverseFrom(_, _, _)
traverseFrom(root, currentNode, direction) ==
  IF currentNode = 0 THEN <<>>
  ELSE (IF acceptNode(currentNode) THEN <<currentNode>> ELSE <<>>)
       \o traverseFrom(root, getNextNode(root, currentNode, direction), direction)

traverseTab ==
  [root \in Roots |-> [direction \in {"forward", "backward"} |->
     [n \in Nodes \cup {0} |-> traverseFrom(root, n, direction)]]]

traverse(root, currentNode, direction) == traverseTab[root][direction][currentNode]

(* iter.next() twice: the first result is dropped, the second is returned  *)
(* (0 when the generator is done).                                         *)
secondOf(root, currentNode, direction) ==
  Let(traverse(root, currentNode, direction), LAMBDA s : IF Len(s) >= 2 THEN s[2] ELSE 0)

(***************************************************************************)
(* Positions.                                                               *)
(***************************************************************************)
Pos(n, k) == [node |-> n, offset |-> k]

(* A text position kept inside its own leaf: the excess of the offset is   *)
(* dropped, not carried into the neighbouring leaf.                         *)
normalizeTextWithin(editor, current_node, current_offset) ==
  IF current_offset < 0 THEN Pos(current_node, 0)
  ELSE IF current_offset > getAfterOffset(current_node)
  THEN Pos(current_node, getAfterOffset(current_node))
  ELSE Pos(current_node, current_offset)

RECURSIVE normalizeText(_, _, _)
normalizeText(editor, current_node, current_offset) ==
  IF current_offset < 0
  THEN Let(secondOf(editor, current_node, "backward"), LAMBDA previousNode :
         IF previousNode = 0 THEN Pos(current_node, 0)
         ELSE IF isTextNode(previousNode)
         THEN normalizeText(editor, previousNode, current_offset + getAfterOffset(previousNode))
         ELSE Pos(previousNode, 1))
  ELSE IF current_offset > getAfterOffset(current_node)
  THEN Let(secondOf(editor, current_node, "forward"), LAMBDA nextNode :
         IF nextNode = 0 THEN Pos(current_node, getAfterOffset(current_node))
         ELSE IF isTextNode(nextNode)
         THEN normalizeText(editor, nextNode, current_offset - getAfterOffset(current_node))
         ELSE Pos(nextNode, 0))
  ELSE Pos(current_node, current_offset)

(* normalizePosition without the clamp of an atomic's offset.               *)
normalizePositionUnclamped(editor, node, offset) ==
  IF isTextNode(node) THEN normalizeText(editor, node, offset) ELSE Pos(node, offset)

normalizePositionOf(editor, node, offset) ==
  IF isTextNode(node) THEN normalizeText(editor, node, offset)
  ELSE IF isElementNode(node)
  THEN IF isAtomicComponent(node)
       THEN IF offset < 1 THEN Pos(node, 0) ELSE Pos(node, 1)
       ELSE Pos(node, offset)
  ELSE Pos(node, offset)

(* Offsets the model follows for node n; a character step leaves them by   *)
(* one at most.                                                             *)
maxOffset(n) == IF acceptNode(n) THEN getAfterOffset(n) ELSE childCount(n)

Offsets(n) == (0 - OffRange)..(maxOffset(n) + OffRange)

NodesOfTab == [root \in Roots |-> {n \in Nodes : contains(root, n)}]

NodesOf(root) == NodesOfTab[root]

(* The documents an editor is attached to in the selection state machine:  *)
(* those whose text leaves all hold text and are drawn with a height.  An  *)
(* empty text node has no client rect, and no layout is given for it.      *)
LaidOutRoots ==
  {root \in Roots : \A n \in NodesOf(root) :
     isTextNode(n) => textLength[n] > 0 /\ boxHeight[n] > 0}

normalizePositionTab ==
  [editor \in Roots |-> [node \in NodesOf(editor) |->
     [offset \in (0 - OffRange - 1)..(Max({maxOffset(n) : n \in Nodes}) + OffRange + 1) |->
        normalizePositionOf(editor, node, offset)]]]

normalizePosition(editor, node, offset) == normalizePositionTab[editor][node][offset]

(* What section 4.C of the specification calls a valid position.           *)
IsValid(p) ==
  \/ isTextNode(p.node) /\ 0 <= p.offset /\ p.offset <= textLength[p.node]
  \/ isAtomicComponent(p.node) /\ p.offset \in {0, 1}

(***************************************************************************)
(* The host layout engine (environment): boxes, Range.getClientRects and   *)
(* Document.caretPositionFromPoint over the boxes of the fixture.          *)
(***************************************************************************)
Rect(l, t, ww, hh) == [left |-> l, right |-> l + ww, top |-> t, bottom |-> t + hh]

height(r) == r.bottom - r.top

width(r) == r.right - r.left

(* Element.getBoundingClientRect                                           *)
getBoundingClientRect(n) == Rect(boxLeft[n], boxTop[n], boxWidth[n], boxHeight[n])

(* The box of characters i..j of a text leaf.                               *)
textRect(n, i, j) ==
  Rect(boxLeft[n] + i * boxWidth[n], boxTop[n], (j - i) * boxWidth[n], boxHeight[n])

(* The leaves the layout draws for the document of `root`, as a set and in *)
(* document order.                                                          *)
LeavesTab == [root \in Roots |-> {n \in Nodes : acceptNode(n) /\ n # root /\ contains(root, n)}]

Leaves(root) == LeavesTab[root]

SetToSeq(S) ==
  LET RECURSIVE build(_)
      build(T) == IF T = {} THEN <<>> ELSE <<Min(T)>> \o build(T \ {Min(T)})
  IN  build(S)

leafSeqTab == [root \in Roots |-> SetToSeq(Leaves(root))]

RECURSIVE lastDescendant(_)
lastDescendant(n) ==
  Let(lastChild(n), LAMBDA child : IF child = 0 THEN n ELSE lastDescendant(child))

(* A DOM boundary point as (leaves wholly before it, characters into the   *)
(* leaf it lies in).                                                        *)
leavesBefore(root, n) == Cardinality({l \in Leaves(root) : l < n})

pointKey(root, p) ==
  IF isTextNode(p.node) THEN <<leavesBefore(root, p.node), p.offset>>
  ELSE IF isAtomicComponent(p.node)
  THEN <<leavesBefore(root, p.node) + (IF p.offset = 0 THEN 0 ELSE 1), 0>>
  ELSE Let(childAt(p.node, p.offset), LAMBDA child :
         <<leavesBefore(root, IF child # 0 THEN child ELSE lastDescendant(p.node) + 1), 0>>)

keyLess(a, b) == a[1] < b[1] \/ (a[1] = b[1] /\ a[2] < b[2])

Reverse(s) == [i \in 1..Len(s) |-> s[Len(s) + 1 - i]]

(* The boxes of the leaves leafSeq[i..] that the range from the boundary   *)
(* with key ks to the boundary with key ke covers.                          *)
RECURSIVE coveredRects(_, _, _, _)
coveredRects(leafSeq, ks, ke, i) ==
  IF i > Len(leafSeq) \/ i > ke[1] + 1 THEN <<>>
  ELSE LET n == leafSeq[i]
           from == IF i = ks[1] + 1 THEN ks[2] ELSE 0
           to == IF i = ke[1] + 1 THEN ke[2] ELSE getAfterOffset(n)
       IN  (IF isTextNode(n)
            THEN IF from < to THEN <<textRect(n, from, to)>> ELSE <<>>
            ELSE IF i <= ke[1] THEN <<getBoundingClientRect(n)>> ELSE <<>>)
           \o coveredRects(leafSeq, ks, ke, i + 1)

(* Range.getClientRects of the native range from s (key ks) to the         *)
(* boundary with key ke, ks not after ke.                                   *)
rangeRects(root, s, ks, ke) ==
  IF ks = ke
  THEN IF isTextNode(s.node) THEN <<textRect(s.node, s.offset, s.offset)>> ELSE <<>>
  ELSE coveredRects(leafSeqTab[root], ks, ke, ks[1] + 1)

(* Range.getClientRects of the native range start..end, whose boundaries   *)
(* have the keys k0 and ke: one box per leaf (or part of a text leaf) the  *)
(* range covers, a zero-width box for a caret in a text leaf, nothing for  *)
(* a caret at an element boundary.  A range whose end was set before its   *)
(* start is collapsed onto the end.                                         *)
orderedRects(root, start, end, k0, ke) ==
  IF keyLess(ke, k0) THEN rangeRects(root, end, ke, ke) ELSE rangeRects(root, start, k0, ke)

nativeClientRects(root, start, end) ==
  orderedRects(root, start, end, pointKey(root, start), pointKey(root, end))

(* Boxes of the leaves of the visual line at height y.                      *)
leafBox(n) ==
  IF isTextNode(n) THEN textRect(n, 0, textLength[n]) ELSE getBoundingClientRect(n)

LineLeaves(root, y) ==
  {n \in Leaves(root) : Let(leafBox(n), LAMBDA box : box.top <= y /\ y < box.bottom)}

(* The offset of the caret stop of text leaf n nearest to x.                *)
nearestOffset(n, x) ==
  Let((x - boxLeft[n] + boxWidth[n] \div 2) \div boxWidth[n], LAMBDA k :
    IF k < 0 THEN 0 ELSE IF k > textLength[n] THEN textLength[n] ELSE k)

(* (parent, index of n + after): the boundary before or after child n.      *)
besideChild(n, after) == Pos(parentNode(n), indexOf(n) + after)

(* The answer beside the boxes of a line: the nearest end of the line, as  *)
(* (parent, index) or, when the end is a text leaf, inside the leaf.        *)
caretAtEdge(edge, beyond) ==
  {Some(besideChild(edge, IF beyond THEN 1 ELSE 0))}
  \cup (IF isTextNode(edge)
        THEN {Some(Pos(edge, IF beyond THEN textLength[edge] ELSE 0))}
        ELSE {})

(* The answer on a line with the leaves `line`, of which `solid` are not   *)
(* line breaks and `hit` have x inside their box.                           *)
caretOnLine(x, line, solid, hit) ==
  IF line = {} THEN {Null}
  ELSE IF solid = {} THEN {Some(besideChild(Min(line), 0))}
  ELSE IF \E n \in hit : isTextNode(n)
  THEN Let(Min({n \in hit : isTextNode(n)}), LAMBDA n : {Some(Pos(n, nearestOffset(n, x)))})
  ELSE IF hit # {} THEN {Some(besideChild(Min(hit), 0))}
  ELSE IF \A n \in solid : leafBox(n).right < x
  THEN caretAtEdge(Max(solid), TRUE)
  ELSE caretAtEdge(Min(solid), FALSE)

(* Document.caretPositionFromPoint: what the engine may answer for (x, y). *)
(* Over a text leaf it answers inside the leaf; over an element box it     *)
(* answers (parent, index); beside the boxes of a line it answers the      *)
(* nearest end of the line, in the leaf or as (parent, index); on a line   *)
(* that holds nothing but a line break it answers (parent, index of the    *)
(* break); off every line it answers null.                                  *)
caretPositionFromPoint(root, x, y) ==
  Let(LineLeaves(root, y), LAMBDA line :
    Let({n \in line : ~isBR(n)}, LAMBDA solid :
      caretOnLine(x, line, solid,
                  {n \in solid : Let(leafBox(n), LAMBDA box : box.left <= x /\ x <= box.right)})))

(***************************************************************************)
(* EditorRange: a pair of normalized boundaries.                            *)
(***************************************************************************)
minHeight == 20

(* The caret box EditorRange.getClientRects builds beside an element with  *)
(* the box `rect`.                                                          *)
elementCaretRect(rect, offset) ==
  LET actualHeight == IF height(rect) > minHeight THEN height(rect) ELSE minHeight
      topAdjustment == (actualHeight - height(rect)) \div 2
  IN  IF offset = 0
      THEN <<Rect(rect.left, rect.top - topAdjustment, 0, actualHeight)>>
      ELSE <<Rect(rect.right, rect.top - topAdjustment, 0, actualHeight)>>

(* reversed ? rects.reverse() : rects                                       *)
ordered(rects, reversed) == IF reversed THEN Reverse(rects) ELSE rects

(* EditorRange.getClientRects for the range start..end                      *)
getClientRects(editor, start, end, reversed) ==
  IF start.node = end.node /\ isElementNode(start.node)
  THEN elementCaretRect(getBoundingClientRect(start.node), start.offset)
  ELSE ordered(nativeClientRects(editor, start, end), reversed)

(* EditorSelection.range: start and end in document order, each boundary   *)
(* passed through setBoundary.                                              *)
isFocusBeforeAnchor(a, f) ==
  IF f.node > a.node THEN FALSE
  ELSE IF f.node < a.node THEN TRUE
  ELSE f.offset < a.offset

(* The range from `from` to `to`, each passed through setBoundary.          *)
rangeOf(editor, from, to) ==
  [start |-> normalizePosition(editor, from.node, from.offset),
   end |-> normalizePosition(editor, to.node, to.offset)]

selectionRange(editor, a, f) ==
  IF isFocusBeforeAnchor(a, f) THEN rangeOf(editor, f, a) ELSE rangeOf(editor, a, f)

(***************************************************************************)
(* DOMRect helpers.                                                         *)
(***************************************************************************)
(* calculateVerticalOverlapRatio(rect1, rect2) < 0.5                        *)
overlapBelowHalf(rect1, rect2) ==
  LET overlapTop == IF rect1.top > rect2.top THEN rect1.top ELSE rect2.top
      overlapBottom == IF rect1.bottom < rect2.bottom THEN rect1.bottom ELSE rect2.bottom
      overlapHeight == IF overlapBottom - overlapTop > 0 THEN overlapBottom - overlapTop ELSE 0
      minH == IF height(rect1) < height(rect2) THEN height(rect1) ELSE height(rect2)
  IN  IF minH > 0 THEN 2 * overlapHeight < minH ELSE TRUE

(* Twice getHorizontalDistance(rect, x), to stay in the integers.           *)
getHorizontalDistance2(rect, x) ==
  IF x >= rect.left /\ x <= rect.right THEN -2
  ELSE LET d == rect.left + rect.right - 2 * x
       IN  IF d < 0 THEN -d ELSE d

(* positions.reduce(...): the first element of least distance.             *)
findBestPosition(positions, x) ==
  LET RECURSIVE reduce(_, _)
      reduce(best, i) ==
        IF i > Len(positions) THEN best
        ELSE IF getHorizontalDistance2(positions[i].rect, x) < getHorizontalDistance2(best.rect, x)
        THEN reduce(positions[i], i + 1)
        ELSE reduce(best, i + 1)
  IN  reduce(positions[1], 2)

(***************************************************************************)
(* EditorRangeRectWalker.walk                                               *)
(***************************************************************************)
tagRects(node, rects) == [i \in 1..Len(rects) |-> [node |-> node, rect |-> rects[i]]]

(* The rects of the first node: those of the range collapsed at the start  *)
(* position `at`, then those of the range between `at` and the far side    *)
(* `edge` of the node (setEndAfter going forward, setStartBefore going     *)
(* backward).                                                               *)
firstRects(editor, firstNode, at, edge, direction) ==
  IF direction = "forward"
  THEN tagRects(firstNode, getClientRects(editor, at, at, FALSE)
                           \o getClientRects(editor, at, edge, FALSE))
  ELSE tagRects(firstNode, getClientRects(editor, at, at, TRUE)
                           \o getClientRects(editor, edge, at, TRUE))

(* range.selectNode(nextNode) for the nodes iterator[i..]                   *)
RECURSIVE selectedRects(_, _, _, _)
selectedRects(editor, iterator, i, reversed) ==
  IF i > Len(iterator) THEN <<>>
  ELSE tagRects(iterator[i],
         getClientRects(editor, normalizePosition(editor, iterator[i], 0),
                        normalizePosition(editor, iterator[i], getAfterOffset(iterator[i])),
                        reversed))
       \o selectedRects(editor, iterator, i + 1, reversed)

(* The (node, rect) pairs of the nodes the iterator yields.                 *)
iteratorPairs(editor, iterator, startOffset, direction) ==
  IF Len(iterator) = 0 THEN <<>>
  ELSE firstRects(editor, iterator[1],
                  normalizePosition(editor, iterator[1], startOffset),
                  normalizePosition(editor, iterator[1],
                    IF direction = "forward" THEN getAfterOffset(iterator[1]) ELSE 0),
                  direction)
       \o selectedRects(editor, iterator, 2, direction = "backward")

(* The (node, rect) pairs in the order walk hands them to processNode.      *)
walkPairs(editor, startNode, startOffset, direction) ==
  iteratorPairs(editor, traverse(editor, startNode, direction), startOffset, direction)

(* A count that goes up by two for a new line.                              *)
RECURSIVE processNodeByTwo(_, _, _, _, _)
processNodeByTwo(pairs, i, lineOffset, lineAnchorRect, direction) ==
  IF i > Len(pairs) THEN <<>>
  ELSE LET rect == pairs[i].rect
           lineOffsetIncrement == IF direction = "forward" THEN 2 ELSE -2
       IN  IF lineAnchorRect = Null
           THEN <<[node |-> pairs[i].node, rect |-> rect, lineOffset |-> lineOffset]>>
                \o processNodeByTwo(pairs, i + 1, lineOffset, Some(rect), direction)
           ELSE IF overlapBelowHalf(Val(lineAnchorRect), rect)
           THEN <<[node |-> pairs[i].node, rect |-> rect,
                   lineOffset |-> lineOffset + lineOffsetIncrement]>>
                \o processNodeByTwo(pairs, i + 1, lineOffset + lineOffsetIncrement,
                                    Some(rect), direction)
           ELSE <<[node |-> pairs[i].node, rect |-> rect, lineOffset |-> lineOffset]>>
                \o processNodeByTwo(pairs, i + 1, lineOffset, lineAnchorRect, direction)

RECURSIVE processNode(_, _, _, _, _)
processNode(pairs, i, lineOffset, lineAnchorRect, direction) ==
  IF i > Len(pairs) THEN <<>>
  ELSE LET rect == pairs[i].rect
           lineOffsetIncrement == IF direction = "forward" THEN 1 ELSE -1
       IN  IF lineAnchorRect = Null
           THEN <<[node |-> pairs[i].node, rect |-> rect, lineOffset |-> lineOffset]>>
                \o processNode(pairs, i + 1, lineOffset, Some(rect), direction)
           ELSE IF overlapBelowHalf(Val(lineAnchorRect), rect)
           THEN IF \/ direction = "forward" /\ Val(lineAnchorRect).bottom > rect.bottom
                   \/ direction = "backward" /\ Val(lineAnchorRect).top < rect.top
                THEN processNode(pairs, i + 1, lineOffset, lineAnchorRect, direction)
                ELSE <<[node |-> pairs[i].node, rect |-> rect,
                        lineOffset |-> lineOffset + lineOffsetIncrement]>>
                     \o processNode(pairs, i + 1, lineOffset + lineOffsetIncrement,
                                    Some(rect), direction)
           ELSE <<[node |-> pairs[i].node, rect |-> rect, lineOffset |-> lineOffset]>>
                \o processNode(pairs, i + 1, lineOffset, lineAnchorRect, direction)

walkFrom(editor, startNode, startOffset, direction) ==
  processNode(walkPairs(editor, startNode, startOffset, direction), 1, 0, Null, direction)

walkTab ==
  [editor \in Roots |-> [direction \in {"forward", "backward"} |->
     [n \in NodesOf(editor) |->
        [k \in Offsets(n) |-> walkFrom(editor, n, k, direction)]]]]

walk(editor, startNode, startOffset, direction) ==
  walkTab[editor][direction][startNode][startOffset]

(***************************************************************************)
(* Editor.getPositionFromPoint                                              *)
(***************************************************************************)
RECURSIVE findAncestorAtomic(_, _)
findAncestorAtomic(node, root) ==
  IF node = 0 \/ node = root THEN 0
  ELSE IF isAtomicComponent(node) THEN node
  ELSE findAncestorAtomic(parentNode(node), root)

(* x < rect.left + rect.width / 2 ? 0 : 1                                   *)
sideOf(n, x) ==
  Let(getBoundingClientRect(n), LAMBDA rect :
    IF 2 * x < 2 * rect.left + width(rect) THEN 0 ELSE 1)

(* leafWalker.forward().next().value || childNode                           *)
firstLeaf(editor, childNode) ==
  Let(traverse(editor, childNode, "forward"), LAMBDA found :
    IF Len(found) > 0 THEN found[1] ELSE childNode)

(* The element branch: the side of an atomic leaf, or else what the second *)
(* caretPositionFromPoint call answers (the engine answers as it did).      *)
leafOrCaret(c, leaf, x) ==
  IF isAtomicComponent(leaf) THEN Some(Pos(leaf, sideOf(leaf, x)))
  ELSE Some(Pos(c.node, c.offset))

(* The position the method returns when the engine answers c and           *)
(* findAncestorAtomic(c.node) is atomicAncestor.                            *)
caretToPosition(editor, c, atomicAncestor, x) ==
  IF atomicAncestor # 0 THEN Some(Pos(atomicAncestor, sideOf(atomicAncestor, x)))
  ELSE IF isElementNode(c.node)
  THEN leafOrCaret(c, firstLeaf(editor, childAt(c.node, c.offset)), x)
  ELSE Some(Pos(c.node, c.offset))

(* The position the method returns when the engine answers `position`.     *)
positionFromCaret(editor, position, x) ==
  IF position = Null THEN Null
  ELSE caretToPosition(editor, Val(position), findAncestorAtomic(Val(position).node, editor), x)

getPositionFromPointOf(editor, x, y) ==
  {positionFromCaret(editor, c, x) : c \in caretPositionFromPoint(editor, x, y)}

(* The points inside the boxes of the fixtures, and one column to their     *)
(* left.                                                                    *)
BoxXs == (0 - 1)..Max({boxLeft[n] + boxWidth[n] : n \in Nodes})

BoxYs == 0..Max({boxTop[n] + boxHeight[n] : n \in Nodes})

getPositionFromPointTab ==
  [editor \in Roots |-> [x \in BoxXs |-> [y \in BoxYs |-> getPositionFromPointOf(editor, x, y)]]]

getPositionFromPoint(editor, x, y) ==
  IF x \in BoxXs /\ y \in BoxYs THEN getPositionFromPointTab[editor][x][y]
  ELSE getPositionFromPointOf(editor, x, y)

(* Points a caller may hit-test: a grid over the fixture's boxes and one    *)
(* row below the last line.                                                 *)
XSteps == 5

YSteps == 3

Points == {<<4 * i + 1, 20 * j + 10>> : i \in 0..XSteps, j \in 0..YSteps}

(* The positions a pointer press on the grid can give.                      *)
PressTab ==
  [editor \in Roots |->
     UNION {getPositionFromPoint(editor, pt[1], pt[2]) : pt \in Points}]

(***************************************************************************)
(* EditorSelection                                                          *)
(***************************************************************************)
Types == {"move", "extend"}

Directions == {"forward", "backward"}

Units == {"character", "line", "lineboundary", "documentboundary"}

(* The first and the last position of the document.                         *)
DocStart(editor) == Let(traverse(editor, editor, "forward"), LAMBDA s : Pos(s[1], 0))

DocEnd(editor) ==
  Let(traverse(editor, editor, "forward"), LAMBDA s : Pos(s[Len(s)], getAfterOffset(s[Len(s)])))

(* Every position the walk yields, with no stop at the end of the line.    *)
takeWhole(s) == s

(* takeWhile(lineOffset === 0)                                              *)
takeWhile0(s) ==
  LET RECURSIVE take(_)
      take(i) == IF i > Len(s) \/ s[i].lineOffset # 0 THEN <<>> ELSE <<s[i]>> \o take(i + 1)
  IN  take(1)

(* skipWhile(lineOffset === 0).takeWhile(|lineOffset| === 1)                *)
adjacentLine(s) ==
  LET RECURSIVE skip(_)
      skip(i) == IF i > Len(s) \/ s[i].lineOffset # 0 THEN i ELSE skip(i + 1)
      RECURSIVE take(_)
      take(i) ==
        IF i > Len(s) \/ s[i].lineOffset \notin {1, -1} THEN <<>> ELSE <<s[i]>> \o take(i + 1)
  IN  take(skip(1))

(* Range.setStart / setEnd reject an offset outside the container's         *)
(* children with an IndexSizeError; toRange hands them every boundary that  *)
(* is not on an atomic.                                                     *)
badBoundary(p) ==
  /\ ~isAtomicComponent(p.node)
  /\ ~isTextNode(p.node)
  /\ (p.offset < 0 \/ p.offset > childCount(p.node))

toRangeThrows(start, end) ==
  ~(start.node = end.node /\ isElementNode(start.node)) /\ (badBoundary(start) \/ badBoundary(end))

(* An atomic that is never left: the caret stays on its far side.          *)
stayOnAtomic(node, result, direction) ==
  IF direction = "forward" THEN Pos(node, 1) ELSE Pos(node, 0)

(* After the atomic's own stops: the neighbour `result` the walker yields, *)
(* or the atomic's far side when there is none.                             *)
leaveAtomic(node, result, direction) ==
  IF direction = "forward"
  THEN IF result = 0 THEN Pos(node, 1) ELSE Pos(result, 0)
  ELSE IF result = 0 THEN Pos(node, 0) ELSE Pos(result, getAfterOffset(result))

(* The character branch of calculateNewPosition with the atomic's own two   *)
(* stops left out: an atomic is left at once, whichever side the caret is   *)
(* on.                                                                      *)
characterStepOver(editor, node, offset, direction) ==
  IF isAtomicComponent(node)
  THEN leaveAtomic(node, secondOf(editor, node, direction), direction)
  ELSE Pos(node, offset + (IF direction = "forward" THEN 1 ELSE -1))

(* The character branch of calculateNewPosition.                            *)
characterStep(editor, node, offset, direction) ==
  IF isAtomicComponent(node)
  THEN IF direction = "forward" /\ offset = 0 THEN Pos(node, 1)
       ELSE IF direction = "backward" /\ offset = 1 THEN Pos(node, 0)
       ELSE leaveAtomic(node, secondOf(editor, node, direction), direction)
  ELSE Pos(node, offset + (IF direction = "forward" THEN 1 ELSE -1))

(* What calculateNewPosition hands back: the position it returns (or       *)
(* null), this.goalX after the call, and whether the call threw.            *)
Returned(pos, g) == [pos |-> pos, goalX |-> g, threw |-> FALSE]

(* return this.editor.getPositionFromPoint(x, y)                            *)
positionAt(editor, x, y, g) == {Returned(p, g) : p \in getPositionFromPoint(editor, x, y)}

(* The vertical middle of a rect.                                           *)
middle(rect) == rect.top + height(rect) \div 2

(* The lineboundary branch, given the positions of the focus line.          *)
lineBoundaryTarget(editor, linePositions, g, direction) ==
  IF Len(linePositions) = 0 THEN {Returned(Null, g)}
  ELSE Let(linePositions[Len(linePositions)].rect, LAMBDA targetRect :
         positionAt(editor,
                    IF direction = "forward" THEN targetRect.right - 1 ELSE targetRect.left,
                    middle(targetRect), g))

(* The line branch after goalX is settled as gx, given the positions of    *)
(* the adjacent line.                                                       *)
lineTarget(editor, targetLinePositions, gx) ==
  IF Len(targetLinePositions) = 0 THEN {Returned(Null, Some(gx))}
  ELSE positionAt(editor, gx, middle(findBestPosition(targetLinePositions, gx).rect), Some(gx))

(* The line branch, given the rects of this.range.                          *)
lineStep(editor, cursorRects, node, offset, g, direction) ==
  IF Len(cursorRects) = 0 /\ g = Null THEN {Returned(Null, g)}
  ELSE lineTarget(editor, adjacentLine(walk(editor, node, offset, direction)),
                  IF g = Null THEN cursorRects[1].left ELSE Val(g))

(* The line branch, given this.range: toRange throws before any rect is    *)
(* read when a boundary is out of its container.                            *)
lineFrom(editor, range, node, offset, g, direction) ==
  IF toRangeThrows(range.start, range.end)
  THEN {[pos |-> Null, goalX |-> g, threw |-> TRUE]}
  ELSE lineStep(editor, getClientRects(editor, range.start, range.end, FALSE),
                node, offset, g, direction)

(* calculateNewPosition with the lineboundary branch taken through the     *)
(* rect walker for every focus, atomic or not.                              *)
calculateNewPositionByRects(editor, a, f, g, direction, granularity) ==
  IF granularity = "character"
  THEN {Returned(Some(characterStep(editor, f.node, f.offset, direction)), g)}
  ELSE IF granularity = "lineboundary"
  THEN lineBoundaryTarget(editor, takeWhile0(walk(editor, f.node, f.offset, direction)),
                          g, direction)
  ELSE IF granularity = "line"
  THEN lineFrom(editor, selectionRange(editor, a, f), f.node, f.offset, g, direction)
  ELSE {Returned(Null, g)}

(* calculateNewPosition: the set of (returned position, this.goalX after    *)
(* the call, whether the call threw), one element per answer the layout     *)
(* engine may give.                                                         *)
calculateNewPosition(editor, a, f, g, direction, granularity) ==
  IF granularity = "character"
  THEN {Returned(Some(characterStep(editor, f.node, f.offset, direction)), g)}
  ELSE IF granularity = "lineboundary" /\ isAtomicComponent(f.node)
          /\ direction = "forward" /\ f.offset = 0
  THEN {Returned(Some(Pos(f.node, 1)), g)}
  ELSE IF granularity = "lineboundary" /\ isAtomicComponent(f.node)
          /\ direction = "backward" /\ f.offset = 1
  THEN {Returned(Some(Pos(f.node, 0)), g)}
  ELSE IF granularity = "lineboundary"
  THEN lineBoundaryTarget(editor, takeWhile0(walk(editor, f.node, f.offset, direction)),
                          g, direction)
  ELSE IF granularity = "line"
  THEN lineFrom(editor, selectionRange(editor, a, f), f.node, f.offset, g, direction)
  ELSE {Returned(Null, g)}

(* collapse(node, offset), setBaseAndExtent and extend(node, offset) as the *)
(* anchor/focus pair they store.                                            *)
collapsed(position) == [anchor |-> position, focus |-> position]

collapse(editor, p) == collapsed(normalizePosition(editor, p.node, p.offset))

setBaseAndExtent(editor, a, f) ==
  [anchor |-> normalizePosition(editor, a.node, a.offset),
   focus |-> normalizePosition(editor, f.node, f.offset)]

extend(editor, a, p) ==
  setBaseAndExtent(editor, a, normalizePosition(editor, p.node, p.offset))

(* goalX dropped at the entry of every modify, line moves included.         *)
goalXDropped(g, granularity) == Null

(* if (granularity !== 'line') this.goalX = null                            *)
goalXAtEntry(g, granularity) == IF granularity # "line" THEN Null ELSE g

(* The type the BR retry of modify passes to the recursive call.            *)
retryType(type) == "move"

(* A modify that never retries.                                             *)
neverRetries(granularity, node) == FALSE

(* granularity === 'character' && this.focus.node.nodeName === 'BR'         *)
landedOnBR(granularity, node) == granularity = "character" /\ isBR(node)

(* How a modify call ended and the selection it left.                       *)
Ended(a, f, g, outcome, retries) ==
  [anchor |-> a, focus |-> f, goalX |-> g, outcome |-> outcome, retries |-> retries]

(* modify(type, direction, granularity) from the selection (a, f, g): the   *)
(* set of selections it can leave, with how it ended.  `seen` holds the     *)
(* focus at entry of every retry made so far: a retry is a call with the    *)
(* same arguments on a collapsed selection, so a focus met twice is a       *)
(* recursion that never ends and exhausts the stack (RangeError).           *)
RECURSIVE modify(_, _, _, _, _, _, _, _, _)
(* The end of modify, once collapse or extend has stored `sel`.             *)
afterSet(editor, sel, g, type, direction, granularity, seen, retries) ==
  IF landedOnBR(granularity, sel.focus.node)
  THEN IF sel.focus \in seen
       THEN {Ended(sel.anchor, sel.focus, g, "RangeError", retries)}
       ELSE modify(editor, sel.anchor, sel.focus, g, retryType(type), direction,
                   "character", seen \cup {sel.focus}, retries + 1)
  ELSE {Ended(sel.anchor, sel.focus, g, "returned", retries)}

(* modify after calculateNewPosition has handed back r.                     *)
afterStep(editor, a, f, r, type, direction, granularity, seen, retries) ==
  IF r.threw THEN {Ended(a, f, r.goalX, "IndexSizeError", retries)}
  ELSE IF r.pos = Null THEN {Ended(a, f, r.goalX, "returned", retries)}
  ELSE afterSet(editor,
                IF type = "move" THEN collapse(editor, Val(r.pos))
                ELSE extend(editor, a, Val(r.pos)),
                r.goalX, type, direction, granularity, seen, retries)

modify(editor, a, f, g, type, direction, granularity, seen, retries) ==
  UNION {afterStep(editor, a, f, r, type, direction, granularity, seen, retries) :
           r \in calculateNewPosition(editor, a, f, goalXAtEntry(g, granularity),
                                      direction, granularity)}

(***************************************************************************)
(* State machine.  anchor, focus and goalX are the fields of the           *)
(* EditorSelection of one Editor whose document is the tree of editorRoot; *)
(* `last` records the call that produced the current state.                 *)
(***************************************************************************)
Call(op) ==
  [op |-> op, type |-> "-", direction |-> "-", unit |-> "-", outcome |-> "returned",
   retries |-> 0, again |-> FALSE]

InRange(p) == p.offset \in Offsets(p.node)

(* Positions a caller may hand in.                                          *)
RawPositionsTab ==
  [editor \in Roots |-> UNION {{Pos(n, k) : k \in Offsets(n)} : n \in NodesOf(editor)}]

RawPositions == RawPositionsTab[editorRoot]

Init ==
  /\ editorRoot \in LaidOutRoots
  /\ anchor = Null
  /\ focus = Null
  /\ goalX = Null
  /\ last = Call("attach")

Collapse ==
  \E p \in RawPositions :
    /\ anchor' = Some(collapse(editorRoot, p).anchor)
    /\ focus' = Some(collapse(editorRoot, p).focus)
    /\ last' = Call("collapse")
    /\ UNCHANGED <<editorRoot, goalX>>

(* extend dereferences this.anchor: a TypeError when there is none.         *)
Extend ==
  \E p \in RawPositions :
    /\ IF anchor = Null
       THEN /\ last' = [Call("extend") EXCEPT !.outcome = "TypeError"]
            /\ UNCHANGED <<anchor, focus>>
       ELSE /\ anchor' = Some(extend(editorRoot, Val(anchor), p).anchor)
            /\ focus' = Some(extend(editorRoot, Val(anchor), p).focus)
            /\ last' = Call("extend")
    /\ UNCHANGED <<editorRoot, goalX>>

(* setBaseAndExtent with the anchor and the focus each at either end of the  *)
(* offsets of one node.                                                     *)
SetBaseAndExtent ==
  \E n \in NodesOfTab[editorRoot], near \in BOOLEAN, far \in BOOLEAN :
    \E a \in {Pos(n, IF near THEN 0 - OffRange ELSE maxOffset(n) + OffRange)},
       f \in {Pos(n, IF far THEN maxOffset(n) + OffRange ELSE 0 - OffRange)} :
      /\ anchor' = Some(setBaseAndExtent(editorRoot, a, f).anchor)
      /\ focus' = Some(setBaseAndExtent(editorRoot, a, f).focus)
      /\ last' = Call("setBaseAndExtent")
      /\ UNCHANGED <<editorRoot, goalX>>

(* setRange(range) with the range a caller builds by range.setStart(p), or  *)
(* with a range that was never given a boundary.                            *)
SetRange ==
  /\ \/ \E p \in RawPositions :
          /\ anchor' = Some(normalizePosition(editorRoot, p.node, p.offset))
          /\ focus' = Some(normalizePosition(editorRoot, p.node, p.offset))
     \/ /\ anchor' = Null
        /\ focus' = Null
  /\ last' = Call("setRange")
  /\ UNCHANGED <<editorRoot, goalX>>

CollapseToStart ==
  /\ IF anchor = Null \/ focus = Null
     THEN UNCHANGED <<anchor, focus>>
     ELSE /\ focus' = Some(selectionRange(editorRoot, Val(anchor), Val(focus)).start)
          /\ anchor' = focus'
  /\ last' = Call("collapseToStart")
  /\ UNCHANGED <<editorRoot, goalX>>

CollapseToEnd ==
  /\ IF anchor = Null \/ focus = Null
     THEN UNCHANGED <<anchor, focus>>
     ELSE /\ focus' = Some(selectionRange(editorRoot, Val(anchor), Val(focus)).end)
          /\ anchor' = focus'
  /\ last' = Call("collapseToEnd")
  /\ UNCHANGED <<editorRoot, goalX>>

(* document.onmousedown: the selection is set to a range started at         *)
(* getPositionFromPoint(clientX, clientY), if there is one.                 *)
OnMouseDown ==
  \E p \in PressTab[editorRoot] :
    /\ IF p = Null
       THEN UNCHANGED <<anchor, focus>>
       ELSE /\ anchor' = Some(normalizePosition(editorRoot, Val(p).node, Val(p).offset))
            /\ focus' = anchor'
    /\ last' = Call("onmousedown")
    /\ UNCHANGED <<editorRoot, goalX>>

Modify ==
  \E type \in Types, direction \in Directions, unit \in Units :
    LET call == [Call("modify") EXCEPT !.type = type, !.direction = direction, !.unit = unit,
                   !.again = (last.op = "modify" /\ last.type = "move" /\ type = "move"
                              /\ last.unit = "line" /\ unit = "line"
                              /\ last.direction = direction /\ last.outcome = "returned")]
    IN  IF focus = Null
        THEN /\ last' = call
             /\ UNCHANGED <<editorRoot, anchor, focus, goalX>>
        ELSE \E r \in modify(editorRoot, Val(anchor), Val(focus), goalX, type, direction,
                             unit, {}, 0) :
               /\ InRange(r.anchor) /\ InRange(r.focus)
               /\ anchor' = Some(r.anchor)
               /\ focus' = Some(r.focus)
               /\ goalX' = r.goalX
               /\ last' = [call EXCEPT !.outcome = r.outcome, !.retries = r.retries]
               /\ UNCHANGED editorRoot

(* document.onkeydown for the plain Right and Left arrow bindings.          *)
KeyNames == {"ArrowRight", "ArrowLeft"}

(* EditorSelection.isCollapsed                                              *)
isCollapsed(a, f) ==
  a # Null /\ f # Null /\ Val(a).node = Val(f).node /\ Val(a).offset = Val(f).offset

OnKeyDown ==
  \E key \in KeyNames :
    IF ~isCollapsed(anchor, focus)
    THEN /\ IF anchor = Null \/ focus = Null
            THEN UNCHANGED <<anchor, focus>>
            ELSE /\ focus' = Some(IF key = "ArrowRight"
                                  THEN selectionRange(editorRoot, Val(anchor), Val(focus)).end
                                  ELSE selectionRange(editorRoot, Val(anchor), Val(focus)).start)
                 /\ anchor' = focus'
         /\ last' = Call(key)
         /\ UNCHANGED <<editorRoot, goalX>>
    ELSE \E r \in modify(editorRoot, Val(anchor), Val(focus), goalX, "move",
                         IF key = "ArrowRight" THEN "forward" ELSE "backward",
                         "character", {}, 0) :
           /\ InRange(r.anchor) /\ InRange(r.focus)
           /\ anchor' = Some(r.anchor)
           /\ focus' = Some(r.focus)
           /\ goalX' = r.goalX
           /\ last' = [Call(key) EXCEPT !.type = "move", !.unit = "character",
                         !.direction = IF key = "ArrowRight" THEN "forward" ELSE "backward",
                         !.outcome = r.outcome, !.retries = r.retries]
           /\ UNCHANGED editorRoot

Next ==
  \/ Collapse
  \/ Extend
  \/ SetBaseAndExtent
  \/ SetRange
  \/ CollapseToStart
  \/ CollapseToEnd
  \/ OnMouseDown
  \/ Modify
  \/ OnKeyDown

Spec == Init /\ [][Next]_vars

(***************************************************************************)
(* Properties.                                                              *)
(***************************************************************************)

(* C1: after any sequence of selection operations both the anchor and the  *)
(* focus are valid positions: a text leaf with 0 <= offset <= length or an *)
(* atomic leaf with offset 0 or 1, never a container and never an offset   *)
(* out of range.                                                            *)
C1_ValidityClosure ==
  /\ anchor # Null => IsValid(Val(anchor))
  /\ focus # Null => IsValid(Val(focus))

(* C2: after a modify(type, direction, 'character') call has returned, the *)
(* focus node is not a BR.                                                  *)
C2_BRTransparency ==
  (last.op = "modify" /\ last.unit = "character" /\ last.outcome = "returned"
     /\ focus # Null)
  => ~isBR(Val(focus).node)

(* C2 witness: a character modify that landed on a BR, retried and         *)
(* returned.                                                                *)
C2_Witness ==
  /\ last.op = "modify" /\ last.unit = "character" /\ last.outcome = "returned"
  /\ last.retries >= 1
  /\ focus # Null

(* C3: every modify(type, direction, 'character') call returns to its      *)
(* caller, also when the step lands on a BR that is the last (forward) or  *)
(* first (backward) addressable leaf.                                       *)
C3_CharacterModifyReturns ==
  (last.op = "modify" /\ last.unit = "character") => last.outcome = "returned"

(* C4: modify('extend', direction, unit) never changes the anchor, also    *)
(* when a character extend lands on a BR and is retried.                    *)
C4_ExtendKeepsAnchor ==
  [][(last'.op = "modify" /\ last'.type = "extend") => anchor' = anchor]_vars

(* C5: when the focus is already at the document end for a forward modify, *)
(* or at the document start for a backward one, modify changes neither the *)
(* anchor nor the focus nor goalX, also for a non-collapsed selection and   *)
(* type 'move'.                                                             *)
C5_NoOpAtDocumentBoundary ==
  [][(/\ last'.op = "modify"
      /\ focus # Null
      /\ \/ last'.direction = "forward" /\ Val(focus) = DocEnd(editorRoot)
         \/ last'.direction = "backward" /\ Val(focus) = DocStart(editorRoot))
     => (anchor' = anchor /\ focus' = focus /\ goalX' = goalX)]_vars

C7_GoalXOnlyAfterLineMove ==
  goalX # Null => (last.op = "modify" /\ last.unit = "line")

(* C8: collapse(P) leaves (P', P', null) with P' a valid position, whatever *)
(* the selection and goalX were before.                                     *)
C8_CollapseResult ==
  last.op = "collapse"
  => /\ anchor = focus
     /\ focus # Null
     /\ IsValid(Val(focus))
     /\ goalX = Null

(* C9: every position the selection holds on an atomic leaf has offset 0   *)
(* or 1.                                                                    *)
C9_AtomicOffsets ==
  \A p \in anchor \cup focus : isAtomicComponent(p.node) => p.offset \in {0, 1}

(* C9 witness: an extended selection with both ends on atomic leaves, the  *)
(* focus reached by a character step.                                       *)
C9_Witness ==
  /\ last.op = "modify" /\ last.unit = "character" /\ last.type = "extend"
  /\ anchor # Null /\ focus # Null
  /\ isAtomicComponent(Val(anchor).node)
  /\ isAtomicComponent(Val(focus).node)
  /\ Val(focus).offset = 1

(* The two stops of a character step across atomic n, from the focus f      *)
(* before the step to the focus after it, for the atomics in `among`.       *)
StopsOnBothSides(among) ==
  (/\ last'.op = "modify" /\ last'.unit = "character"
   /\ focus # Null)
  => LET f == Val(focus)
         after == secondOf(editorRoot, f.node, "forward")
         before == secondOf(editorRoot, f.node, "backward")
     IN  /\ (/\ last'.direction = "forward" /\ isTextNode(f.node)
             /\ f.offset = getAfterOffset(f.node) /\ after \in among)
            => focus' = Some(Pos(after, 0))
         /\ (last'.direction = "forward" /\ f.node \in among /\ f.offset = 0)
            => focus' = Some(Pos(f.node, 1))
         /\ (/\ last'.direction = "backward" /\ isTextNode(f.node)
             /\ f.offset = 0 /\ before \in among)
            => focus' = Some(Pos(before, 1))
         /\ (last'.direction = "backward" /\ f.node \in among /\ f.offset = 1)
            => focus' = Some(Pos(f.node, 0))

RECURSIVE pastBreaks(_, _, _)
pastBreaks(root, n, direction) ==
  Let(secondOf(root, n, direction), LAMBDA next :
    IF next # 0 /\ isBR(next) THEN pastBreaks(root, next, direction) ELSE next)

(* A character modify from the end of a text leaf followed by a BR, or     *)
(* from the start of a text leaf preceded by one, lands on the near side   *)
(* of target(BR, direction) whenever there is such a leaf.                  *)
CrossesBreak(target(_, _)) ==
  (/\ last'.op = "modify" /\ last'.unit = "character"
   /\ focus # Null /\ isTextNode(Val(focus).node))
  => LET f == Val(focus)
         br == secondOf(editorRoot, f.node, last'.direction)
         landing == target(br, last'.direction)
     IN  (/\ f.offset = (IF last'.direction = "forward" THEN getAfterOffset(f.node) ELSE 0)
          /\ isBR(br)
          /\ landing # 0)
         => focus' = Some(Pos(landing, IF last'.direction = "forward" THEN 0
                                       ELSE getAfterOffset(landing)))

isBlockElement(n) == isElementNode(n) /\ nodeName[n] \in {"DIV", "P", "HR"}

(* The nearest block element around n.                                      *)
RECURSIVE blockOf(_)
blockOf(n) == IF n = 0 \/ isBlockElement(n) THEN n ELSE blockOf(parentNode(n))

(* C12: a block boundary between two text leaves is one character step: a  *)
(* forward character move from the end of the last text leaf of a block    *)
(* lands at offset 0 of the first text leaf of the following block, and a  *)
(* backward one from offset 0 of the first text leaf of a block lands at   *)
(* the end of the last text leaf of the preceding block.                    *)
C12_BlockBoundaryIsAStep ==
  [][(/\ last'.op = "modify" /\ last'.unit = "character"
      /\ focus # Null /\ isTextNode(Val(focus).node))
     => LET f == Val(focus)
            next == secondOf(editorRoot, f.node, last'.direction)
        IN  (/\ f.offset = (IF last'.direction = "forward" THEN getAfterOffset(f.node) ELSE 0)
             /\ isTextNode(next)
             /\ blockOf(next) # blockOf(f.node))
            => focus' = Some(Pos(next, IF last'.direction = "forward" THEN 0
                                       ELSE getAfterOffset(next)))]_vars

(* isTextNodeInInlineElement: a text node whose parent is an element that  *)
(* is not a block.                                                          *)
isTextNodeInInlineElement(n) ==
  isTextNode(n) /\ isElementNode(parentNode(n)) /\ ~isBlockElement(parentNode(n))

(* C13: from the end of a text leaf inside an inline wrapper that is       *)
(* immediately followed by a text leaf inside another inline wrapper, one  *)
(* forward character move lands at offset 1 of the following leaf.          *)
C13_SharedBoundaryIsOneStop ==
  [][(/\ last'.op = "modify" /\ last'.unit = "character"
      /\ last'.direction = "forward"
      /\ focus # Null /\ isTextNodeInInlineElement(Val(focus).node))
     => LET f == Val(focus)
            next == secondOf(editorRoot, f.node, "forward")
        IN  (/\ f.offset = getAfterOffset(f.node)
             /\ isTextNodeInInlineElement(next)
             /\ parentNode(next) # parentNode(f.node))
            => focus' = Some(Pos(next, 1))]_vars

(* C13 witness: in <strong>ab</strong><em>cd</em>, a selection extended    *)
(* forward by one character from the end of "ab" to (cd, 1).                *)
C13_Witness ==
  /\ last.op = "modify" /\ last.unit = "character" /\ last.type = "extend"
  /\ last.direction = "forward" /\ last.outcome = "returned"
  /\ anchor = Some(Pos(24, 2))
  /\ focus = Some(Pos(26, 1))

(***************************************************************************)
(* CaretPosition.compareTo (src/src/lib/caret/CaretPosition.ts), applied   *)
(* to pairs of valid positions of one attached root.                        *)
(***************************************************************************)
(* The boundary point of the collapsed range CaretPosition.toRange builds:  *)
(* an element position is taken relative to its parent.                     *)
toRange(p) ==
  IF isElementNode(p.node) /\ parentNode(p.node) # 0
  THEN Pos(parentNode(p.node), indexOf(p.node) + (IF p.offset = 0 THEN 0 ELSE 1))
  ELSE p

(* The child of the ancestor anc on the path down to n.                     *)
RECURSIVE childToward(_, _)
childToward(anc, n) == IF parentNode(n) = anc THEN n ELSE childToward(anc, parentNode(n))

(* The position of boundary point a relative to b, a.node preceding b.node  *)
(* in tree order (DOM standard, boundary point position).                   *)
pointRelative(a, b) ==
  IF contains(a.node, b.node) /\ indexOf(childToward(a.node, b.node)) < a.offset
  THEN 1 ELSE 0 - 1

(* Range.compareBoundaryPoints(START_TO_START) of two collapsed ranges of   *)
(* one tree.                                                                *)
compareBoundaryPoints(a, b) ==
  IF a.node = b.node
  THEN (IF a.offset < b.offset THEN 0 - 1 ELSE IF a.offset > b.offset THEN 1 ELSE 0)
  ELSE IF a.node < b.node THEN pointRelative(a, b)
  ELSE 0 - pointRelative(b, a)

compareTo(this, other) ==
  IF this.node = other.node THEN this.offset - other.offset
  ELSE compareBoundaryPoints(toRange(this), toRange(other))

ValidPositions(root) == {p \in RawPositionsTab[root] : IsValid(p)}

CompareInit ==
  /\ editorRoot \in LaidOutRoots
  /\ anchor \in {Some(p) : p \in ValidPositions(editorRoot)}
  /\ focus \in {Some(p) : p \in ValidPositions(editorRoot)}
  /\ goalX = Null
  /\ last = [op |-> "attach", result |-> 0]

(* anchor.compareTo(focus) *)
CompareTo ==
  /\ last.op = "attach"
  /\ last' = [op |-> "compareTo", result |-> compareTo(Val(anchor), Val(focus))]
  /\ UNCHANGED <<editorRoot, anchor, focus, goalX>>

CompareNext == CompareTo

CompareSpec == CompareInit /\ [][CompareNext]_vars

(* C14: for two valid positions compareTo returns one of -1, 0, +1, also   *)
(* on one node with offsets more than 1 apart, and the result is the       *)
(* negation of the result with the arguments exchanged.                     *)
C14_CompareTotality ==
  last.op = "compareTo"
  => /\ last.result \in {0 - 1, 0, 1}
     /\ last.result = 0 - compareTo(Val(focus), Val(anchor))

(***************************************************************************)
(* Document order of the endpoints of a selection.                          *)
(***************************************************************************)
(* The place in the tree a position stands for: an atomic leaf's offsets 0 *)
(* and 1 are the places before and after it in its parent.                  *)
boundaryOf(p) == IF isAtomicComponent(p.node) THEN toRange(p) ELSE p

isBefore(p, q) == compareBoundaryPoints(boundaryOf(p), boundaryOf(q)) < 0

(* The endpoints no other endpoint precedes (earliest) or follows (latest). *)
earliest(a, f) == {p \in {a, f} : \A q \in {a, f} : ~isBefore(q, p)}

latest(a, f) == {p \in {a, f} : \A q \in {a, f} : ~isBefore(p, q)}

(* C15: collapseToStart leaves anchor = focus = the earlier endpoint in    *)
(* document order and collapseToEnd the later one, for forward and          *)
(* backward selections, endpoints on one leaf or on two, atomic or not.     *)
C15_CollapseToEndpoint ==
  [][(anchor # Null /\ focus # Null)
     => /\ last'.op = "collapseToStart"
           => anchor' = focus' /\ Val(focus') \in earliest(Val(anchor), Val(focus))
        /\ last'.op = "collapseToEnd"
           => anchor' = focus' /\ Val(focus') \in latest(Val(anchor), Val(focus))]_vars

(* C16: with a non-collapsed selection the plain Right (Left) arrow        *)
(* binding leaves anchor = focus = the end (start) of the selection in     *)
(* document order and performs no character move; with a collapsed         *)
(* selection it performs modify('move', forward/backward, 'character').    *)
C16_ArrowCollapsesFirst ==
  [][(last'.op \in KeyNames /\ anchor # Null /\ focus # Null)
     => IF anchor # focus
        THEN /\ last'.unit = "-"
             /\ anchor' = focus'
             /\ Val(focus') \in (IF last'.op = "ArrowRight"
                                 THEN latest(Val(anchor), Val(focus))
                                 ELSE earliest(Val(anchor), Val(focus)))
        ELSE /\ last'.type = "move" /\ last'.unit = "character"
             /\ last'.direction = (IF last'.op = "ArrowRight" THEN "forward" ELSE "backward")]_vars

(* C17: for every point getPositionFromPoint returns null or a valid       *)
(* position, also when the layout's caret-from-point candidate is a        *)
(* container element.                                                       *)
C17_ResolverReturnsValid ==
  \A pt \in Points :
    \A p \in getPositionFromPoint(editorRoot, pt[1], pt[2]) :
      p = Null \/ IsValid(Val(p))

(* An offset inside the range the specification gives a node: 0..length on *)
(* a text node, 0..1 on an element.                                         *)
offsetInRange(p) ==
  /\ p.offset >= 0
  /\ isTextNode(p.node) => p.offset <= textLength[p.node]
  /\ isElementNode(p.node) => p.offset <= 1

(* C18: an operation that is given a position (collapse, extend,           *)
(* setBaseAndExtent, setRange after range.setStart) raises no exception    *)
(* whatever the offset, and the positions it stores have offsets in range.  *)
C18_OutOfRangeNormalized ==
  [][(/\ last'.op \in {"collapse", "extend", "setBaseAndExtent", "setRange"}
      /\ last'.op = "extend" => anchor # Null
      /\ focus' # Null)
     => /\ last'.outcome = "returned"
        /\ offsetInRange(Val(focus'))
        /\ last'.op # "extend" => offsetInRange(Val(anchor'))]_vars

(***************************************************************************)
(* The operations that take a position, called with a node that is not a   *)
(* descendant of the editor root: a node of another tree, detached from    *)
(* the editor's.                                                            *)
(***************************************************************************)
DetachedRoot(editor) == IF editor = 1 THEN 7 ELSE 1

ForeignPositions(editor) ==
  UNION {{Pos(n, k) : k \in Offsets(n)} : n \in NodesOfTab[DetachedRoot(editor)]}

CollapseForeign ==
  \E p \in ForeignPositions(editorRoot) :
    /\ focus' = Some(normalizePositionOf(editorRoot, p.node, p.offset))
    /\ anchor' = focus'
    /\ last' = Call("collapse")
    /\ UNCHANGED <<editorRoot, goalX>>

ExtendForeign ==
  \E p \in ForeignPositions(editorRoot) :
    /\ IF anchor = Null
       THEN /\ last' = [Call("extend") EXCEPT !.outcome = "TypeError"]
            /\ UNCHANGED <<anchor, focus>>
       ELSE Let(normalizePositionOf(editorRoot, p.node, p.offset), LAMBDA q :
              /\ anchor' = Some(normalizePositionOf(editorRoot, Val(anchor).node,
                                                    Val(anchor).offset))
              /\ focus' = Some(normalizePositionOf(editorRoot, q.node, q.offset))
              /\ last' = Call("extend"))
    /\ UNCHANGED <<editorRoot, goalX>>

(* setBaseAndExtent with the anchor at either end of the offsets of a node  *)
(* of the editor and the focus on a foreign node.                           *)
SetBaseAndExtentForeign ==
  \E n \in NodesOfTab[editorRoot], near \in BOOLEAN :
    \E a \in {Pos(n, IF near THEN 0 - OffRange ELSE maxOffset(n) + OffRange)},
       f \in ForeignPositions(editorRoot) :
      /\ anchor' = Some(normalizePositionOf(editorRoot, a.node, a.offset))
      /\ focus' = Some(normalizePositionOf(editorRoot, f.node, f.offset))
      /\ last' = Call("setBaseAndExtent")
      /\ UNCHANGED <<editorRoot, goalX>>

ForeignNext ==
  \/ Collapse
  \/ CollapseForeign
  \/ ExtendForeign
  \/ SetBaseAndExtentForeign

ForeignSpec == Init /\ [][ForeignNext]_vars

(* C19: collapse, extend and setBaseAndExtent given a position on a node   *)
(* that is not a descendant of the editor root raise nothing, leave the    *)
(* selection unchanged, and never store a position on such a node.          *)
C19_ForeignPositionRejected ==
  [][(CollapseForeign \/ ExtendForeign \/ SetBaseAndExtentForeign)
     => /\ last'.outcome = "returned"
        /\ UNCHANGED <<anchor, focus>>
        /\ \A s \in {anchor', focus'} : s # Null => contains(editorRoot, Val(s).node)]_vars

(***************************************************************************)
(* normalizeDocument (src/src/normalizeDocument.ts) over documents given   *)
(* by the child nodes of the root: a text node has a nodeValue, a sequence  *)
(* of characters; an element is a block or not and has text children.       *)
(***************************************************************************)
MaxTextLength == 2

MaxChildNodes == 2

Texts == UNION {[1..k -> {" ", "a"}] : k \in 0..MaxTextLength}

TextNodes ==
  {[nodeType |-> 3, nodeValue |-> v, block |-> FALSE, childNodes |-> <<>>] : v \in Texts}

Elements ==
  {[nodeType |-> 1, nodeValue |-> <<>>, block |-> b, childNodes |-> c] :
     b \in BOOLEAN, c \in UNION {[1..k -> TextNodes] : k \in 0..MaxChildNodes}}

Documents == UNION {[1..k -> TextNodes \cup Elements] : k \in 0..MaxChildNodes}

(* nodeValue.replace(/\s+/g, ' ')                                          *)
RECURSIVE replaceSpaces(_)
replaceSpaces(s) ==
  IF Len(s) < 2 THEN s
  ELSE IF s[1] = " " /\ s[2] = " " THEN replaceSpaces(Tail(s))
  ELSE <<s[1]>> \o replaceSpaces(Tail(s))

RECURSIVE trimStart(_)
trimStart(s) == IF s # <<>> /\ s[1] = " " THEN trimStart(Tail(s)) ELSE s

RECURSIVE trimEnd(_)
trimEnd(s) ==
  IF s # <<>> /\ s[Len(s)] = " " THEN trimEnd(SubSeq(s, 1, Len(s) - 1)) ELSE s

(* if (isTextNode(x)) x.nodeValue = x.nodeValue.trimStart() / trimEnd(),    *)
(* x the node at index i of nodes, if there is one.                         *)
trimStartAt(nodes, i) ==
  IF i \in DOMAIN nodes /\ nodes[i].nodeType = 3
  THEN [nodes EXCEPT ![i].nodeValue = trimStart(@)] ELSE nodes

trimEndAt(nodes, i) ==
  IF i \in DOMAIN nodes /\ nodes[i].nodeType = 3
  THEN [nodes EXCEPT ![i].nodeValue = trimEnd(@)] ELSE nodes

(* The tree walker from the node at index i of nodes on: acceptNode on the *)
(* node, then on its descendants, then on its following siblings.           *)
RECURSIVE walkNodes(_, _)
walkNodes(nodes, i) ==
  IF i > Len(nodes) THEN nodes
  ELSE IF nodes[i].nodeType = 3
  THEN walkNodes([nodes EXCEPT ![i].nodeValue = replaceSpaces(@)], i + 1)
  ELSE IF ~nodes[i].block
  THEN walkNodes([nodes EXCEPT ![i].childNodes = walkNodes(@, 1)], i + 1)
  ELSE walkNodes([trimStartAt(trimEndAt(nodes, i - 1), i + 1) EXCEPT
                    ![i].childNodes =
                       walkNodes(trimEndAt(trimStartAt(@, 1), Len(@)), 1)], i + 1)

(* Node.normalize(): empty text nodes removed, adjacent text nodes merged.  *)
RECURSIVE normalize(_)
normalize(nodes) ==
  IF nodes = <<>> THEN <<>>
  ELSE Let(normalize(Tail(nodes)), LAMBDA rest :
         IF nodes[1].nodeType = 1
         THEN <<[nodes[1] EXCEPT !.childNodes = normalize(@)]>> \o rest
         ELSE IF nodes[1].nodeValue = <<>> THEN rest
         ELSE IF rest # <<>> /\ rest[1].nodeType = 3
         THEN <<[nodes[1] EXCEPT !.nodeValue = @ \o rest[1].nodeValue]>> \o Tail(rest)
         ELSE <<nodes[1]>> \o rest)

normalizeDocument(doc) == normalize(walkNodes(doc, 1))

DocumentInit ==
  /\ editorRoot = 1
  /\ anchor = Null
  /\ focus = Null
  /\ goalX = Null
  /\ last \in {[op |-> "createElement", passes |-> 0, doc |-> d, before |-> d] : d \in Documents}

(* normalizeDocument(doc), at attach and once more on its own result.       *)
NormalizeDocument ==
  /\ last.passes < 2
  /\ last' = [op |-> "normalizeDocument", passes |-> last.passes + 1,
              doc |-> normalizeDocument(last.doc), before |-> last.doc]
  /\ UNCHANGED <<editorRoot, anchor, focus, goalX>>

DocumentNext == NormalizeDocument

DocumentSpec == DocumentInit /\ [][DocumentNext]_vars

(* C21: the attach-time pass applied to a root that was already normalized *)
(* changes nothing: every text node keeps its content and no node is added *)
(* or removed.                                                              *)
C21_NormalizationIdempotent == last.passes = 2 => last.doc = last.before

(* C22: modify('move', 'backward', 'documentboundary') leaves the          *)
(* collapsed selection at (first addressable leaf, 0) and the forward one  *)
(* at (last addressable leaf, its length or 1), from any position.          *)
C22_DocumentBoundaryMove ==
  [][(/\ last'.op = "modify" /\ last'.type = "move"
      /\ last'.unit = "documentboundary" /\ focus # Null)
     => /\ anchor' = focus'
        /\ focus' = Some(IF last'.direction = "backward"
                         THEN DocStart(editorRoot) ELSE DocEnd(editorRoot))]_vars

C24_LineMoveAdjacent ==
  [][LET y == boxTop[Val(focus).node] + (IF last'.direction = "forward" THEN 20 ELSE 0 - 20)
         caretX(p) == IF isTextNode(p.node) THEN boxLeft[p.node] + p.offset * boxWidth[p.node]
                      ELSE IF p.offset = 0 THEN boxLeft[p.node]
                      ELSE boxLeft[p.node] + boxWidth[p.node]
         dist(u, v) == IF u < v THEN v - u ELSE u - v
         stops == UNION {{Pos(n, k) : k \in 0..getAfterOffset(n)} :
                           n \in {m \in Leaves(editorRoot) : boxTop[m] = y}}
     IN  (/\ last'.op = "modify" /\ last'.type = "move" /\ last'.unit = "line"
          /\ focus # Null /\ IsValid(Val(focus)) /\ anchor = focus
          /\ stops # {})
         => /\ last'.outcome = "returned"
            /\ goalX' # Null
            /\ Val(focus') \in stops
            /\ \A q \in stops :
                 dist(caretX(Val(focus')), Val(goalX')) <= dist(caretX(q), Val(goalX'))]_vars

(* C25: a forward lineboundary move with the focus at offset 0 of an       *)
(* atomic leaf, or a backward one with the focus at offset 1, keeps the    *)
(* focus on that atomic leaf and toggles its offset.                        *)
C25_AtomicLineBoundaryToggle ==
  [][(/\ last'.op = "modify" /\ last'.unit = "lineboundary"
      /\ focus # Null /\ isAtomicComponent(Val(focus).node)
      /\ \/ last'.direction = "forward" /\ Val(focus).offset = 0
         \/ last'.direction = "backward" /\ Val(focus).offset = 1)
     => /\ last'.outcome = "returned"
        /\ focus' = Some(Pos(Val(focus).node, 1 - Val(focus).offset))]_vars

(* C25 witness: in <span>ab</span><img/><span>cd</span> a forward          *)
(* lineboundary move has left the caret at (img, 1), in the middle of the  *)
(* line: the end of the line is (cd, 2).                                    *)
C25_Witness ==
  /\ last.op = "modify" /\ last.type = "move" /\ last.unit = "lineboundary"
  /\ last.direction = "forward" /\ last.outcome = "returned"
  /\ editorRoot = 1 /\ anchor = Some(Pos(4, 1)) /\ focus = Some(Pos(4, 1))

(***************************************************************************)
(* normalizePosition on its own, one pass of its loop at a time, in the    *)
(* two forms the repository holds: the function of main.ts and the module  *)
(* normalizePosition.ts.  anchor is the position handed in, focus the      *)
(* position the loop stands at, last.visited the leaves it has stood on.   *)
(***************************************************************************)
MaxExcess == 3

Files == {"main.ts", "normalizePosition.ts"}

Pass(node, offset, done) == [node |-> node, offset |-> offset, done |-> done]

(* A pass that leaves the loop where it stands.                             *)
stayOnNode(editor, node, direction) == node

(* createTraverser(editor, node, direction).first(): the first text or     *)
(* atomic node the generator yields that is not the start node (0 for      *)
(* none).                                                                   *)
findNextNode(editor, node, direction) ==
  Let(traverse(editor, node, direction), LAMBDA s :
    IF Len(s) >= 1 /\ s[1] # node THEN s[1]
    ELSE IF Len(s) >= 2 THEN s[2]
    ELSE 0)

(* No special handling at the end of a text node.                           *)
noBoundaryHandling(editor, node, offset, max) == Null

handleTextNodeBoundaryAt(node, max, nextNode) ==
  IF nextNode = 0 THEN Null
  ELSE IF isAtomicComponent(nextNode) /\ ~isBlockElement(nextNode) THEN Some(Pos(nextNode, 0))
  ELSE IF isTextNode(nextNode)
  THEN IF ~isTextNodeInInlineElement(node) /\ isTextNodeInInlineElement(nextNode)
       THEN Some(Pos(nextNode, 0))
       ELSE IF isTextNodeInInlineElement(node) /\ isTextNodeInInlineElement(nextNode)
       THEN Some(Pos(node, max))
       ELSE Null
  ELSE Null

handleTextNodeBoundary(editor, node, offset, max) ==
  IF ~isTextNode(node) \/ offset # max THEN Null
  ELSE handleTextNodeBoundaryAt(node, max, findNextNode(editor, node, "forward"))

isMovingBetweenBlocks(currentNode, nextNode) ==
  /\ ~isTextNodeInInlineElement(currentNode)
  /\ ~isTextNodeInInlineElement(nextNode)
  /\ parentNode(currentNode) # parentNode(nextNode)

(* The offset carried as it is, with no adjustment at a block boundary.    *)
calculatePlainOffset(currentOffset, max, currentNode, nextNode, isForward) ==
  IF isForward THEN currentOffset - max ELSE currentOffset + getAfterOffset(nextNode)

calculateNewOffset(currentOffset, max, currentNode, nextNode, isForward) ==
  Let(IF isMovingBetweenBlocks(currentNode, nextNode) THEN 1 ELSE 0,
      LAMBDA blockBoundaryAdjustment :
        IF isForward THEN currentOffset - max - blockBoundaryAdjustment
        ELSE currentOffset + getAfterOffset(nextNode) + blockBoundaryAdjustment)

(* One pass of the while (true) of normalizePosition.ts once nextNode is   *)
(* found.                                                                   *)
normalizePositionStep(currentNode, currentOffset, max, nextNode, isForward) ==
  IF nextNode = 0 THEN Pass(currentNode, IF isForward THEN max ELSE 0, TRUE)
  ELSE Pass(nextNode, calculateNewOffset(currentOffset, max, currentNode, nextNode, isForward),
            FALSE)

(* One pass of the while (true) of normalizePosition.ts.                    *)
normalizePositionPass(editor, currentNode, currentOffset) ==
  Let(getAfterOffset(currentNode), LAMBDA max :
    IF currentOffset >= 0 /\ currentOffset <= max
    THEN Let(handleTextNodeBoundary(editor, currentNode, currentOffset, max),
             LAMBDA boundaryPosition :
               IF boundaryPosition # Null
               THEN Pass(Val(boundaryPosition).node, Val(boundaryPosition).offset, TRUE)
               ELSE Pass(currentNode, currentOffset, TRUE))
    ELSE normalizePositionStep(currentNode, currentOffset, max,
           findNextNode(editor, currentNode,
                        IF currentOffset > max THEN "forward" ELSE "backward"),
           currentOffset > max))

(* One pass of the while (true) of the normalizePosition of main.ts, which *)
(* runs for a text node.                                                    *)
normalizeTextPass(editor, current_node, current_offset) ==
  IF current_offset < 0
  THEN Let(secondOf(editor, current_node, "backward"), LAMBDA previousNode :
         IF previousNode = 0 THEN Pass(current_node, 0, TRUE)
         ELSE IF isTextNode(previousNode)
         THEN Pass(previousNode, current_offset + getAfterOffset(previousNode), FALSE)
         ELSE Pass(previousNode, 1, TRUE))
  ELSE IF current_offset > getAfterOffset(current_node)
  THEN Let(secondOf(editor, current_node, "forward"), LAMBDA nextNode :
         IF nextNode = 0 THEN Pass(current_node, getAfterOffset(current_node), TRUE)
         ELSE IF isTextNode(nextNode)
         THEN Pass(nextNode, current_offset - getAfterOffset(current_node), FALSE)
         ELSE Pass(nextNode, 0, TRUE))
  ELSE Pass(current_node, current_offset, TRUE)

(* The element branch of the normalizePosition of main.ts returns at once. *)
returned(position) == Pass(position.node, position.offset, TRUE)

NormalizeInputs(root) ==
  UNION {{Pos(n, k) : k \in (0 - MaxExcess)..(getAfterOffset(n) + MaxExcess)} :
           n \in NodesOf(root)}

NormalizeInit ==
  /\ editorRoot \in Roots
  /\ anchor \in {Some(p) : p \in NormalizeInputs(editorRoot)}
  /\ focus = anchor
  /\ goalX = Null
  /\ last \in {[op |-> "call", file |-> f, done |-> FALSE,
                visited |-> {Val(anchor).node} \cap Leaves(editorRoot)] : f \in Files}

(* The loop has made the pass r.                                            *)
Passed(r) ==
  /\ focus' = Some(Pos(r.node, r.offset))
  /\ last' = [last EXCEPT !.op = "pass", !.done = r.done,
                          !.visited = @ \cup ({r.node} \cap Leaves(editorRoot))]
  /\ UNCHANGED <<editorRoot, anchor, goalX>>

NormalizePositionMain ==
  /\ last.file = "main.ts" /\ ~last.done
  /\ Passed(IF isTextNode(Val(focus).node)
            THEN normalizeTextPass(editorRoot, Val(focus).node, Val(focus).offset)
            ELSE returned(normalizePositionOf(editorRoot, Val(focus).node, Val(focus).offset)))

NormalizePositionModule ==
  /\ last.file = "normalizePosition.ts" /\ ~last.done
  /\ Passed(normalizePositionPass(editorRoot, Val(focus).node, Val(focus).offset))

NormalizeNext == NormalizePositionMain \/ NormalizePositionModule

(* A call that has started runs on: the loop is straight-line code with no *)
(* await in it.                                                             *)
NormalizeSpec == NormalizeInit /\ [][NormalizeNext]_vars /\ WF_vars(NormalizeNext)

RECURSIVE carried(_, _, _)
carried(root, n, k) ==
  IF k < 0
  THEN LET before == {m \in Leaves(root) : m < n}
           prev == Max(before)
       IN  IF before = {} THEN Pos(n, 0)
           ELSE IF isTextNode(prev) THEN carried(root, prev, k + textLength[prev])
           ELSE Pos(prev, 1)
  ELSE IF k > textLength[n]
  THEN LET after == {m \in Leaves(root) : m > n}
           next == Min(after)
       IN  IF after = {} THEN Pos(n, textLength[n])
           ELSE IF isTextNode(next) THEN carried(root, next, k - textLength[n])
           ELSE Pos(next, 0)
  ELSE Pos(n, k)

RECURSIVE normalizePositionLoop(_, _, _)
normalizePositionLoop(editor, node, offset) ==
  Let(normalizePositionPass(editor, node, offset), LAMBDA r :
    IF r.done THEN Pos(r.node, r.offset) ELSE normalizePositionLoop(editor, r.node, r.offset))

(* A step taken the other way round: -1 for 'forward' and 1 for 'backward'. *)
previousCharacter(editor, f, direction) ==
  Let(normalizePositionLoop(editor, f.node, f.offset + (IF direction = "forward" THEN -1 ELSE 1)),
      LAMBDA newFocusPosition :
        normalizePositionLoop(editor, newFocusPosition.node, newFocusPosition.offset))

(* this.focus.nextCharacter(1 or -1), then collapse.                        *)
nextCharacter(editor, f, direction) ==
  Let(normalizePositionLoop(editor, f.node, f.offset + (IF direction = "forward" THEN 1 ELSE -1)),
      LAMBDA newFocusPosition :
        normalizePositionLoop(editor, newFocusPosition.node, newFocusPosition.offset))

(* modify('move', direction, 'character') of the EditorSelection that      *)
(* imports normalizePosition.ts; `seen` as in modify.                       *)
RECURSIVE modifyCharacter(_, _, _, _, _)
modifyCharacter(editor, f, direction, seen, retries) ==
  Let(nextCharacter(editor, f, direction), LAMBDA p :
    IF isBR(p.node)
    THEN IF p \in seen THEN Ended(p, p, Null, "RangeError", retries)
         ELSE modifyCharacter(editor, p, direction, seen \cup {p}, retries + 1)
    ELSE Ended(p, p, Null, "returned", retries))

modifyCharacterTab ==
  [editor \in Roots |-> [f \in ValidPositions(editor) |-> [direction \in Directions |->
     modifyCharacter(editor, f, direction, {}, 0)]]]

(* normalizePosition of normalizePosition.ts in the form with the loop     *)
(* written out in one function: the rule at the end of a text node is the  *)
(* same, and only a forward walk is adjusted at a block boundary.           *)
RECURSIVE normalizePositionInline(_, _, _)
normalizePositionInline(editor, currentNode, currentOffset) ==
  Let(getAfterOffset(currentNode), LAMBDA max :
    IF currentOffset >= 0 /\ currentOffset <= max
    THEN Let(handleTextNodeBoundary(editor, currentNode, currentOffset, max), LAMBDA b :
           IF b # Null THEN Val(b) ELSE Pos(currentNode, currentOffset))
    ELSE Let(findNextNode(editor, currentNode,
                          IF currentOffset > max THEN "forward" ELSE "backward"),
             LAMBDA nextNode :
               IF nextNode = 0 THEN Pos(currentNode, IF currentOffset > max THEN max ELSE 0)
               ELSE IF currentOffset > max
               THEN normalizePositionInline(editor, nextNode,
                      currentOffset - max
                        - (IF isMovingBetweenBlocks(currentNode, nextNode) THEN 1 ELSE 0))
               ELSE normalizePositionInline(editor, nextNode,
                      currentOffset + getAfterOffset(nextNode))))

nextCharacterInline(editor, f, direction) ==
  Let(normalizePositionInline(editor, f.node,
                              f.offset + (IF direction = "forward" THEN 1 ELSE -1)),
      LAMBDA newFocusPosition :
        normalizePositionInline(editor, newFocusPosition.node, newFocusPosition.offset))

RECURSIVE modifyCharacterInline(_, _, _, _, _)
modifyCharacterInline(editor, f, direction, seen, retries) ==
  Let(nextCharacterInline(editor, f, direction), LAMBDA p :
    IF isBR(p.node)
    THEN IF p \in seen THEN Ended(p, p, Null, "RangeError", retries)
         ELSE modifyCharacterInline(editor, p, direction, seen \cup {p}, retries + 1)
    ELSE Ended(p, p, Null, "returned", retries))

modifyCharacterInlineTab ==
  [editor \in Roots |-> [f \in ValidPositions(editor) |-> [direction \in Directions |->
     modifyCharacterInline(editor, f, direction, {}, 0)]]]

(* The three EditorSelections that are driven: the one of main.ts with its *)
(* own normalizePosition, and the one that imports normalizePosition.ts,   *)
(* in the two forms of that file.                                           *)
TravelFiles == Files \cup {"normalizePosition.ts:3700"}

TravelCall(op, file, direction, outcome, retries) ==
  [op |-> op, file |-> file, direction |-> direction, outcome |-> outcome, retries |-> retries]

TravelInit ==
  /\ editorRoot \in Roots
  /\ anchor \in {Some(p) : p \in ValidPositions(editorRoot)}
  /\ focus \in {Some(p) : p \in ValidPositions(editorRoot)}
  /\ goalX = Null
  /\ last \in {TravelCall("collapse", f, d, "returned", 0) : f \in TravelFiles, d \in Directions}

(* The call has left the selection r.                                       *)
Moved(r) ==
  /\ anchor' = Some(r.anchor)
  /\ focus' = Some(r.focus)
  /\ goalX' = r.goalX
  /\ last' = TravelCall("modify", last.file, last.direction, r.outcome, r.retries)
  /\ UNCHANGED editorRoot

ModifyCharacterMain ==
  /\ last.file = "main.ts"
  /\ \E r \in modify(editorRoot, Val(anchor), Val(focus), goalX, "move", last.direction,
                     "character", {}, 0) : Moved(r)

ModifyCharacterModule ==
  /\ last.file = "normalizePosition.ts"
  /\ \E r \in {modifyCharacterTab[editorRoot][Val(focus)][last.direction]} : Moved(r)

ModifyCharacterInline ==
  /\ last.file = "normalizePosition.ts:3700"
  /\ \E r \in {modifyCharacterInlineTab[editorRoot][Val(focus)][last.direction]} : Moved(r)

TravelNext == ModifyCharacterMain \/ ModifyCharacterModule \/ ModifyCharacterInline

(* The caller goes on calling: the next call is always made.                *)
TravelSpec == TravelInit /\ [][TravelNext]_vars /\ WF_vars(TravelNext)

strictlyLater(p, q) == q.node > p.node \/ (q.node = p.node /\ q.offset > p.offset)

opposite(direction) == IF direction = "forward" THEN "backward" ELSE "forward"

(* modify('move', direction, 'character') of the EditorSelection of `file`. *)
modifyCharacterOf(file, editor, a, f, g, direction) ==
  IF file = "main.ts" THEN modify(editor, a, f, g, "move", direction, "character", {}, 0)
  ELSE IF file = "normalizePosition.ts" THEN {modifyCharacterTab[editor][f][direction]}
  ELSE {modifyCharacterInlineTab[editor][f][direction]}

RoundTripCall(op, file, direction, outcome, start, leg) ==
  [op |-> op, file |-> file, direction |-> direction, outcome |-> outcome,
   start |-> start, leg |-> leg]

RoundTripInit ==
  /\ editorRoot \in Roots
  /\ anchor \in {Some(p) : p \in ValidPositions(editorRoot)}
  /\ focus = anchor
  /\ goalX = Null
  /\ last \in {RoundTripCall("collapse", f, d, "returned", Null, 0) :
                f \in TravelFiles, d \in Directions}

RoundTripMoved(r, direction, start, leg) ==
  /\ anchor' = Some(r.anchor)
  /\ focus' = Some(r.focus)
  /\ goalX' = r.goalX
  /\ last' = RoundTripCall("modify", last.file, direction,
                           IF last.outcome = "returned" THEN r.outcome ELSE last.outcome,
                           start, leg)
  /\ UNCHANGED editorRoot

(* Some character move, in either direction, produces the starting position. *)
ProduceStart ==
  /\ last.leg = 0
  /\ \E d \in Directions :
       \E r \in modifyCharacterOf(last.file, editorRoot, Val(anchor), Val(focus), goalX, d) :
         /\ r.outcome = "returned"
         /\ RoundTripMoved(r, last.direction, Some(r.focus), 1)

(* The move away, in the direction of the round trip.                       *)
MoveAway ==
  /\ last.leg = 1
  /\ \E r \in modifyCharacterOf(last.file, editorRoot, Val(anchor), Val(focus), goalX,
                                 last.direction) :
       RoundTripMoved(r, last.direction, last.start, 2)

(* The move back, in the opposite direction.                                *)
MoveBack ==
  /\ last.leg = 2
  /\ \E r \in modifyCharacterOf(last.file, editorRoot, Val(anchor), Val(focus), goalX,
                                 opposite(last.direction)) :
       RoundTripMoved(r, last.direction, last.start, 3)

RoundTripNext == ProduceStart \/ MoveAway \/ MoveBack

RoundTripSpec == RoundTripInit /\ [][RoundTripNext]_vars

Subtree(root) == {n \in Nodes : contains(root, n)}

WalkerRoots == {n \in Nodes : isElementNode(n) /\ ~isAtomicComponent(n)}

(* forwardTreeWalker(root, startNode): the nodes it yields, from `node` on. *)
RECURSIVE forwardTreeWalker(_, _)
forwardTreeWalker(root, node) ==
  IF node = 0 THEN <<>>
  ELSE (IF acceptNode(node) THEN <<node>> ELSE <<>>)
       \o forwardTreeWalker(root,
             IF ~isAtomicComponent(node) /\ firstChild(node) # 0 THEN firstChild(node)
             ELSE ancestorNextSibling(root, node))

(* backwardTreeWalker(root, startNode).                                     *)
RECURSIVE backwardTreeWalker(_, _)
backwardTreeWalker(root, node) ==
  IF node = 0 THEN <<>>
  ELSE (IF acceptNode(node) THEN <<node>> ELSE <<>>)
       \o (IF node = root THEN <<>>
           ELSE IF previousSibling(node) # 0
           THEN backwardTreeWalker(root, deepestLastChild(previousSibling(node)))
           ELSE IF parentNode(node) = root THEN <<>>
           ELSE backwardTreeWalker(root, parentNode(node)))

(* traversePreOrderGenerator(root, {node}, acceptNode) with the acceptNode *)
(* createTraverser passes: every node is yielded, atomics are not entered. *)
RECURSIVE traversePreOrderGenerator(_, _)
traversePreOrderGenerator(root, node) ==
  IF node = 0 THEN <<>>
  ELSE <<node>>
       \o traversePreOrderGenerator(root,
             IF ~isAtomicComponent(node) /\ firstChild(node) # 0 THEN firstChild(node)
             ELSE ancestorNextSibling(root, node))

(* traversePreOrderBackwardGenerator: the start node is not yielded.        *)
RECURSIVE traversePreOrderBackwardGenerator(_, _)
traversePreOrderBackwardGenerator(root, node) ==
  IF node = 0 \/ node = root THEN <<>>
  ELSE Let(IF previousSibling(node) # 0 THEN deepestLastChild(previousSibling(node))
           ELSE parentNode(node),
           LAMBDA n :
             IF n = 0 \/ n = root THEN <<>>
             ELSE <<n>> \o traversePreOrderBackwardGenerator(root, n))

(* createTraverser(editor, startNode, direction): the generator filtered   *)
(* to text and atomic nodes other than the start node.                     *)
createTraverser(root, startNode, direction) ==
  LET kept(n) == acceptNode(n) /\ n # startNode
  IN  SelectSeq(IF direction = "forward" THEN traversePreOrderGenerator(root, startNode)
                ELSE traversePreOrderBackwardGenerator(root, startNode),
                kept)

(* The filter of createCaretWalker: FILTER_ACCEPT for a text node and for  *)
(* TABLE, HR and BR, FILTER_SKIP for another element.                       *)
caretAccept(n) == isTextNode(n) \/ (isElementNode(n) /\ nodeName[n] \in {"TABLE", "HR", "BR"})

(* The last node of the subtree of n.                                       *)
RECURSIVE lastInclusiveDescendant(_)
lastInclusiveDescendant(n) ==
  IF lastChild(n) # 0 THEN lastInclusiveDescendant(lastChild(n)) ELSE n

(* TreeWalker.nextNode() and previousNode() of the host, called again and  *)
(* again from currentNode with that filter, which rejects no node: the     *)
(* walk enters the children of a node whatever the filter said of it.      *)
RECURSIVE caretWalker(_, _, _)
caretWalker(root, currentNode, direction) ==
  Let(IF direction = "forward"
      THEN (IF firstChild(currentNode) # 0 THEN firstChild(currentNode)
            ELSE ancestorNextSibling(root, currentNode))
      ELSE (IF currentNode = root THEN 0
            ELSE IF previousSibling(currentNode) # 0
            THEN lastInclusiveDescendant(previousSibling(currentNode))
            ELSE IF parentNode(currentNode) = root THEN 0
            ELSE parentNode(currentNode)),
      LAMBDA n :
        IF n = 0 THEN <<>>
        ELSE (IF caretAccept(n) THEN <<n>> ELSE <<>>) \o caretWalker(root, n, direction))

Walkers == {"EditorTreeWalker", "treeWalker", "createTraverser", "createCaretWalker"}

(* The nodes a walker yields, in order.                                     *)
walkerNodes(walker, root, startNode, direction) ==
  IF walker = "EditorTreeWalker" THEN traverseFrom(root, startNode, direction)
  ELSE IF walker = "treeWalker"
  THEN (IF direction = "forward" THEN forwardTreeWalker(root, startNode)
        ELSE backwardTreeWalker(root, startNode))
  ELSE IF walker = "createTraverser" THEN createTraverser(root, startNode, direction)
  ELSE caretWalker(root, startNode, direction)

WalkInit ==
  /\ editorRoot \in WalkerRoots
  /\ anchor = Null /\ focus = Null /\ goalX = Null
  /\ last \in {[op |-> "create", walker |-> w, direction |-> d, startNode |-> n,
                 count |-> 0, node |-> 0, previous |-> 0] :
                w \in Walkers, d \in Directions, n \in Subtree(editorRoot)}

(* The walker yields its next node.                                         *)
Yield(s) ==
  /\ last.count < Len(s)
  /\ last' = [last EXCEPT !.op = "next", !.count = last.count + 1,
                          !.node = s[last.count + 1], !.previous = last.node]
  /\ UNCHANGED <<editorRoot, anchor, focus, goalX>>

EditorTreeWalkerNext ==
  /\ last.walker = "EditorTreeWalker"
  /\ Yield(traverseFrom(editorRoot, last.startNode, last.direction))

TreeWalkerNext ==
  /\ last.walker = "treeWalker"
  /\ Yield(IF last.direction = "forward" THEN forwardTreeWalker(editorRoot, last.startNode)
           ELSE backwardTreeWalker(editorRoot, last.startNode))

TraverserNext ==
  /\ last.walker = "createTraverser"
  /\ Yield(createTraverser(editorRoot, last.startNode, last.direction))

CaretWalkerNext ==
  /\ last.walker = "createCaretWalker"
  /\ Yield(caretWalker(editorRoot, last.startNode, last.direction))

WalkNext == EditorTreeWalkerNext \/ TreeWalkerNext \/ TraverserNext \/ CaretWalkerNext

WalkSpec == WalkInit /\ [][WalkNext]_vars

(* An atomic leaf: the tags and the class of the specification.             *)
insideAtomic(n, startNode) ==
  \E a \in Nodes : /\ isAtomicComponent(a) /\ a # n /\ contains(a, n)
                    /\ ~contains(a, startNode)

(* C33: no walker yields a node that lies strictly inside an atomic leaf,  *)
(* in either direction, from a start node outside that atomic.             *)
C33_NeverInsideAtomic ==
  last.count > 0 => ~insideAtomic(last.node, last.startNode)

(* C34: the logical tree walker (EditorTreeWalker) yields only addressable *)
(* leaves, a text node with text or an atomic, that are proper descendants *)
(* of its root.                                                             *)
C34_YieldsOnlyAddressableLeaves ==
  (last.count > 0 /\ last.walker = "EditorTreeWalker")
  => /\ isAtomicComponent(last.node) \/ (isTextNode(last.node) /\ textLength[last.node] > 0)
     /\ last.node # editorRoot
     /\ contains(editorRoot, last.node)

(* The node a walker yields after `node` when started on it (0 for none).  *)
follower(walker, root, node, direction) ==
  Let(walkerNodes(walker, root, node, direction), LAMBDA s :
    IF Len(s) >= 1 /\ s[1] # node THEN s[1]
    ELSE IF Len(s) >= 2 THEN s[2]
    ELSE 0)

(* An addressable leaf under the root: a text node with text or an atomic. *)
addressable(root, n) ==
  /\ n # 0 /\ n # root /\ contains(root, n)
  /\ isAtomicComponent(n) \/ (isTextNode(n) /\ textLength[n] > 0)

RectWalkInit ==
  /\ editorRoot \in Roots
  /\ anchor \in {Some(p) : p \in ValidPositions(editorRoot)}
  /\ focus = anchor
  /\ goalX = Null
  /\ last \in {[op |-> "walk", direction |-> d, count |-> 0, record |-> Null,
                 previous |-> Null, lineAnchorRect |-> Null] : d \in Directions}

WalkNextRecord ==
  \E s \in {walk(editorRoot, Val(focus).node, Val(focus).offset, last.direction)} :
    /\ last.count < Len(s)
    /\ last' = [last EXCEPT
                  !.op = "next", !.count = last.count + 1,
                  !.record = Some(s[last.count + 1]), !.previous = last.record,
                  !.lineAnchorRect =
                     IF \/ last.record = Null
                        \/ s[last.count + 1].lineOffset # Val(last.record).lineOffset
                     THEN Some(s[last.count + 1].rect)
                     ELSE last.lineAnchorRect]
    /\ UNCHANGED <<editorRoot, anchor, focus, goalX>>

RectWalkNext == WalkNextRecord

RectWalkSpec == RectWalkInit /\ [][RectWalkNext]_vars

(* C36: the first record of the rect walker has lineOffset 0, and from one *)
(* record to the next lineOffset stays or moves by exactly one in the      *)
(* direction of travel, so it never returns toward 0.                       *)
C36_LineOffsetStepsByOne ==
  /\ last.count = 1 => Val(last.record).lineOffset = 0
  /\ last.count >= 2 =>
       Val(last.record).lineOffset - Val(last.previous).lineOffset
         \in {0, IF last.direction = "forward" THEN 1 ELSE -1}

(* Three lines of <div>ab<br/>a<br/>ab</div> walked forward from its start. *)
C36_Witness ==
  /\ editorRoot = 11 /\ focus = Some(Pos(12, 0)) /\ last.direction = "forward"
  /\ last.count >= 2 /\ Val(last.record).lineOffset = 2 /\ Val(last.previous).lineOffset = 1

(* C37: the rect walker emits no record whose rect has zero height, and no *)
(* zero-height rect is the line anchor.                                     *)
C37_NoZeroHeightRect ==
  /\ last.record # Null => height(Val(last.record).rect) > 0
  /\ last.lineAnchorRect # Null => height(Val(last.lineAnchorRect)) > 0

(***************************************************************************)
(* The Backspace and Delete bindings: a selection is set and one of the    *)
(* two keys is pressed.  The document is not rewritten here; `last` holds  *)
(* the selection before the key and the range the binding hands to the     *)
(* deletion (this.range when deleteSelection or deleteFromDocument is      *)
(* called).                                                                *)
(***************************************************************************)
Bindings == {"part_017", "main.ts:1777", "main.ts:3420"}

(* modify('extend', direction, 'character') of the EditorSelection that    *)
(* imports normalizePosition.ts: extend and setBaseAndExtent normalize the *)
(* focus again, and a focus on a BR makes modify('move', ...) the retry.   *)
extendCharacter(editor, a, f, direction) ==
  Let(nextCharacter(editor, f, direction), LAMBDA p :
    Let(normalizePositionLoop(editor, p.node, p.offset), LAMBDA newFocus :
      IF isBR(newFocus.node)
      THEN modifyCharacter(editor, newFocus, direction, {newFocus}, 1)
      ELSE Ended(normalizePositionLoop(editor, a.node, a.offset), newFocus, Null,
                 "returned", 0)))

(* Whether the binding of `key` calls modify('extend', ...) before it      *)
(* deletes: the Backspace of main.ts 3420-3478 always does.                 *)
extendsFirst(binding, key, isCollapsedNow) ==
  IF binding = "main.ts:3420" /\ key = "Backspace" THEN TRUE ELSE isCollapsedNow

(* The selection the binding deletes: after the extension, if it makes one. *)
selectionToDelete(binding, key, editor, a, f, g, direction) ==
  IF ~extendsFirst(binding, key, a = f) THEN {Ended(a, f, g, "returned", 0)}
  ELSE IF binding = "main.ts:1777"
  THEN modify(editor, a, f, g, "extend", direction, "character", {}, 0)
  ELSE {extendCharacter(editor, a, f, direction)}

(* The selection after the deletion: collapseToStart in deleteSelection    *)
(* (1644-1654), the end of the range in deleteFromDocument (3130-3136),    *)
(* untouched where deleteFromDocument is still to be written.              *)
afterDeletion(binding, range, r) ==
  IF binding = "main.ts:1777" THEN [anchor |-> range.start, focus |-> range.start]
  ELSE IF binding = "main.ts:3420" THEN [anchor |-> range.end, focus |-> range.end]
  ELSE [anchor |-> r.anchor, focus |-> r.focus]

DeleteInit ==
  /\ editorRoot \in LaidOutRoots
  /\ anchor \in {Some(p) : p \in ValidPositions(editorRoot)}
  /\ focus \in {Some(p) : p \in ValidPositions(editorRoot)}
  /\ goalX = Null
  /\ last \in {[op |-> "setBaseAndExtent", binding |-> b, outcome |-> "returned",
                 before |-> Null, deleted |-> Null] : b \in Bindings}

DeleteKey(key, direction) ==
  /\ last.op = "setBaseAndExtent"
  /\ \E r \in selectionToDelete(last.binding, key, editorRoot, Val(anchor), Val(focus),
                                  goalX, direction) :
       IF r.outcome = "returned"
       THEN Let(selectionRange(editorRoot, r.anchor, r.focus), LAMBDA range :
              /\ anchor' = Some(afterDeletion(last.binding, range, r).anchor)
              /\ focus' = Some(afterDeletion(last.binding, range, r).focus)
              /\ goalX' = r.goalX
              /\ last' = [last EXCEPT !.op = key, !.before = Some(<<Val(anchor), Val(focus)>>),
                                      !.deleted = Some(range)])
       ELSE /\ anchor' = Some(r.anchor)
            /\ focus' = Some(r.focus)
            /\ goalX' = r.goalX
            /\ last' = [last EXCEPT !.op = key, !.outcome = r.outcome,
                                    !.before = Some(<<Val(anchor), Val(focus)>>)]
  /\ UNCHANGED editorRoot

Backspace == DeleteKey("Backspace", "backward")

Delete == DeleteKey("Delete", "forward")

DeleteNext == Backspace \/ Delete

DeleteSpec == DeleteInit /\ [][DeleteNext]_vars

(* C38: Backspace or Delete on a non-collapsed selection deletes exactly   *)
(* the selected range; only on a collapsed selection is the range the one  *)
(* that a character extension backward (forward for Delete) selects.        *)
C38_DeletesExactlyTheSelection ==
  (last.op \in {"Backspace", "Delete"} /\ last.outcome = "returned")
  => LET a == Val(last.before)[1]
         f == Val(last.before)[2]
     IN  IF a # f
         THEN last.deleted = Some(selectionRange(editorRoot, a, f))
         ELSE last.deleted # Some(selectionRange(editorRoot, a, f))
              \/ f = (IF last.op = "Delete" THEN DocEnd(editorRoot) ELSE DocStart(editorRoot))

====
